---- MODULE Spec2Model ----
(***************************************************************************)
(* Stocrates: the news API manager with automatic fallback                 *)
(* (src/lib/news/api-manager.ts, class NewsAPIManager).                    *)
(*                                                                         *)
(* Time is Date.now() in milliseconds.  JavaScript runs a synchronous      *)
(* block to completion: the clock advances only while every call is        *)
(* suspended at an await (the throttling timer, the upstream fetch) or no  *)
(* call is active.  An async call is cut at its awaits: one action per     *)
(* synchronous block.                                                      *)
(*                                                                         *)
(* Strings that the code searches (error messages) are sequences of        *)
(* one-character strings; an optional field (x?: T) is the empty set when  *)
(* undefined and {v} when it holds v.                                      *)
(***************************************************************************)
EXTENDS Integers, Sequences, FiniteSets, TLC

VARIABLES
    apiStatus,     \* Map<string, APIStatus>, the manager's only field
    now,           \* Date.now()
    pc,            \* per call: "idle", "loop", "waiting", "fetching", "done"
    idx,           \* per call: position of the for-loop in apis (1-based)
    fallbackUsed,  \* per call: the local variable fallbackUsed
    wakeAt,        \* per call: the instant the setTimeout of waitForRateLimit is due
    result,        \* per call: what the returned promise settled with
    fetched,       \* history: per call, the providers whose fetch() was invoked, in order
    outcome,       \* history: per call and provider, how that provider's turn ended
    lastAttempt,   \* history: per provider, the instant of its latest fetch() invocation
    callsMade,     \* number of fetchNewsWithFallback calls made so far
    ticks          \* number of clock advances so far

vars == <<apiStatus, now, pc, idx, fallbackUsed, wakeAt, result,
          fetched, outcome, lastAttempt, callsMade, ticks>>

----------------------------------------------------------------------------
(***************************************************************************)
(* The other components of the program.  Each is checked on its own, with  *)
(* the rest of the program at rest: the manager as constructed, no         *)
(* classification asked for, no fetchStockNews call made, no request       *)
(* arrived, no scrape started, no event detection asked for, every API key *)
(* set in the environment.                                                 *)
(***************************************************************************)
VARIABLES
    apiKey,        \* process.env: per provider, whether its API key is set
    cArticle,      \* classifier: the NewsArticle handed to the map callback
    cText,         \* classifier: the text handed to the Reddit analyzeSentiment
    cNews,         \* classifier: the article the callback returned ({} before)
    cReddit,       \* classifier: the label analyzeSentiment returned ({} before)
    nPc,           \* fetchStockNews: "idle", "sources", "reddit", "done"
    symbol,        \* fetchStockNews: its argument
    newsArticles,  \* fetchStockNews: const articles
    articlesWithSentiment,  \* fetchStockNews: const articlesWithSentiment
    analysis,      \* fetchStockNews: what the returned promise settled with ({} before)
    managerGave,   \* history: how newsAPIManager.fetchNewsWithFallback settled
    redditGave,    \* history: how getStockSentimentFromReddit settled
    rtPc,          \* route: "idle", "arrived", "awaiting", "responded"
    handler,       \* route: which of the two GET handlers serves (1 or 2)
    request,       \* route: searchParams.get('symbol'), searchParams.get('date')
    response,      \* route: the NextResponse returned ({} before)
    priceGave,     \* history: how fetchHistoricalPrice settled
    rdPc,          \* scraper: "idle", "fetching", "sleeping", "done"
    limit,         \* scraper: the argument limit of scrapeWallStreetBets
    loopI,         \* scraper: the loop counter i
    posts,         \* scraper: posts.length (the loop looks at nothing else of posts)
    after,         \* scraper: the cursor ({} for null)
    wake,          \* scraper: the instant the setTimeout of the loop is due
    rdResult,      \* scraper: what the returned promise settled with ({} before)
    clock,         \* scraper: Date.now()
    batches,       \* history: the requests this call has sent to Reddit
    lastRequestAt, \* history: the instant of the latest request to Reddit ({} if none)
    scrapes,       \* number of scrapeWallStreetBets calls made so far
    gPc,           \* getStockSentimentFromReddit: "idle", "scraping", "done"
    gSymbol,       \* getStockSentimentFromReddit: its argument symbol
    gAnalysis,     \* getStockSentimentFromReddit: const analysis ({} before)
    gResult,       \* getStockSentimentFromReddit: what its promise settled with ({} before)
    groqApiKey,    \* event detector: whether GROQ_API_KEY was set when the module loaded
    dPc,           \* detectEventType: "idle", "generating", "done"
    dHeadline,     \* detectEventType: its argument headline
    dText,         \* detectEventType: result.text of generateText ({} before)
    dEvent         \* detectEventType: the DetectedEvent it resolved with ({} before)

envVars == <<apiKey>>
clfVars == <<cArticle, cText, cNews, cReddit>>
newsVars == <<nPc, symbol, newsArticles, articlesWithSentiment, analysis,
              managerGave, redditGave>>

routeVars == <<rtPc, handler, request, response, priceGave>>

redditVars == <<rdPc, limit, loopI, posts, after, wake, rdResult, clock,
                batches, lastRequestAt, scrapes>>

sentimentVars == <<gPc, gSymbol, gAnalysis, gResult>>

detectorVars == <<groqApiKey, dPc, dHeadline, dText, dEvent>>

\* NEWS_API_KEY and FINNHUB_API_KEY are set
envAtRest == apiKey = [p \in {"newsapi", "finnhub"} |-> TRUE]

\* nothing was asked of the classifiers
clfAtRest ==
    /\ cArticle = [title |-> <<>>, snippet |-> <<>>]
    /\ cText = <<>>
    /\ cNews = {}
    /\ cReddit = {}

\* fetchStockNews was not called
newsAtRest ==
    /\ nPc = "idle"
    /\ symbol = <<>>
    /\ newsArticles = <<>>
    /\ articlesWithSentiment = <<>>
    /\ analysis = {}
    /\ managerGave = [kind |-> "none"]
    /\ redditGave = [kind |-> "none"]

\* no request has arrived
routeAtRest ==
    /\ rtPc = "idle"
    /\ handler = 0
    /\ request = [symbol |-> {}, date |-> {}]
    /\ response = {}
    /\ priceGave = [kind |-> "none"]

\* scrapeWallStreetBets was not called
redditAtRest ==
    /\ rdPc = "idle"
    /\ limit = 0
    /\ loopI = 0
    /\ posts = 0
    /\ after = {}
    /\ wake = 0
    /\ rdResult = {}
    /\ clock = 0
    /\ batches = 0
    /\ lastRequestAt = {}
    /\ scrapes = 0

\* getStockSentimentFromReddit was not called
sentimentAtRest ==
    /\ gPc = "idle"
    /\ gSymbol = <<>>
    /\ gAnalysis = {}
    /\ gResult = {}

\* detectEventType was not called; GROQ_API_KEY is set
detectorAtRest ==
    /\ groqApiKey = TRUE
    /\ dPc = "idle"
    /\ dHeadline = <<>>
    /\ dText = {}
    /\ dEvent = {}

\* the frames: what the actions of a component leave alone
outsideManager == <<envVars, clfVars, newsVars, routeVars, redditVars, sentimentVars,
                    detectorVars>>
outsideClassifier == <<vars, envVars, newsVars, routeVars, redditVars, sentimentVars,
                       detectorVars>>
outsideNews == <<vars, envVars, clfVars, routeVars, redditVars, sentimentVars,
                 detectorVars>>
outsideRoute == <<vars, envVars, clfVars, newsVars, redditVars, sentimentVars,
                  detectorVars>>
outsideReddit == <<vars, envVars, clfVars, newsVars, routeVars, sentimentVars,
                   detectorVars>>
outsideSentiment == <<vars, envVars, clfVars, newsVars, routeVars, redditVars,
                      detectorVars>>
outsideDetector == <<vars, envVars, clfVars, newsVars, routeVars, redditVars,
                     sentimentVars>>

----------------------------------------------------------------------------
(* Bounds of the model *)

MaxCalls == 2
MaxTicks == 2

----------------------------------------------------------------------------
(* Constants of the program *)

RATE_LIMIT_COOLDOWN == 60 * 60 * 1000
MIN_REQUEST_INTERVAL == 1000

\* 'RATE_LIMIT', the needle of error.message.includes
RATE_LIMIT == <<"R","A","T","E","_","L","I","M","I","T">>
\* 'Rate limit exceeded'
RateLimitExceeded ==
    <<"R","a","t","e"," ","l","i","m","i","t"," ","e","x","c","e","e","d","e","d">>
\* 'Unknown error'
UnknownError == <<"U","n","k","n","o","w","n"," ","e","r","r","o","r">>

Undefined == {}
Some(v) == {v}
\* JavaScript truthiness of an optional number: undefined and 0 are falsy
Truthy(opt) == \E v \in opt : v # 0

\* String.prototype.includes
Includes(s, sub) ==
    \E i \in 0..(Len(s) - Len(sub)) : SubSeq(s, i + 1, i + Len(sub)) = sub

Providers == {"newsapi", "finnhub"}

\* mutant: the providers listed in the other order
apisReversed == <<"finnhub", "newsapi">>

\* the local array apis of fetchNewsWithFallback, in attempt order
apis == <<"newsapi", "finnhub">>

\* the constructor's status map
InitialStatus ==
    [p \in Providers |->
        [name |-> IF p = "newsapi" THEN "NewsAPI.org" ELSE "Finnhub",
         available |-> TRUE,
         rateLimitResetTime |-> Undefined,
         lastError |-> Undefined,
         requestCount |-> 0,
         lastRequestTime |-> 0]]

----------------------------------------------------------------------------
(* The private methods, as functions of one provider's status and the clock *)

\* mutant: the cooldown is dropped at any check, whatever the clock says
isAPIAvailableEager(status, t) ==
    IF Truthy(status.rateLimitResetTime)
    THEN [ret |-> TRUE,
          status |-> [status EXCEPT !.available = TRUE,
                                    !.rateLimitResetTime = Undefined]]
    ELSE [ret |-> status.available, status |-> status]

\* mutant: the cooldown ends strictly after rateLimitResetTime
isAPIAvailableLate(status, t) ==
    IF Truthy(status.rateLimitResetTime)
       /\ \E r \in status.rateLimitResetTime : t <= r
    THEN [ret |-> FALSE, status |-> status]
    ELSE IF Truthy(status.rateLimitResetTime)
            /\ \E r \in status.rateLimitResetTime : t > r
         THEN [ret |-> TRUE,
               status |-> [status EXCEPT !.available = TRUE,
                                         !.rateLimitResetTime = Undefined]]
         ELSE [ret |-> status.available, status |-> status]

\* mutant: the expired cooldown is dropped and the flag is left as it was
isAPIAvailableKeepsFlag(status, t) ==
    IF Truthy(status.rateLimitResetTime)
       /\ \E r \in status.rateLimitResetTime : t < r
    THEN [ret |-> FALSE, status |-> status]
    ELSE IF Truthy(status.rateLimitResetTime)
            /\ \E r \in status.rateLimitResetTime : t >= r
         THEN [ret |-> status.available,
               status |-> [status EXCEPT !.rateLimitResetTime = Undefined]]
         ELSE [ret |-> status.available, status |-> status]

\* isAPIAvailable: the value returned and the status it leaves behind
isAPIAvailable(status, t) ==
    IF Truthy(status.rateLimitResetTime)
       /\ \E r \in status.rateLimitResetTime : t < r
    THEN [ret |-> FALSE, status |-> status]
    ELSE IF Truthy(status.rateLimitResetTime)
            /\ \E r \in status.rateLimitResetTime : t >= r
         THEN [ret |-> TRUE,
               status |-> [status EXCEPT !.available = TRUE,
                                         !.rateLimitResetTime = Undefined]]
         ELSE [ret |-> status.available, status |-> status]

\* mutant: the sleep is one millisecond short
waitTimeShort(status, t) ==
    LET timeSinceLastRequest == t - status.lastRequestTime
    IN  IF timeSinceLastRequest < MIN_REQUEST_INTERVAL - 1
        THEN MIN_REQUEST_INTERVAL - 1 - timeSinceLastRequest
        ELSE 0

\* waitForRateLimit: the delay handed to setTimeout, 0 when it does not sleep
waitTime(status, t) ==
    LET timeSinceLastRequest == t - status.lastRequestTime
    IN  IF timeSinceLastRequest < MIN_REQUEST_INTERVAL
        THEN MIN_REQUEST_INTERVAL - timeSinceLastRequest
        ELSE 0

\* waitForRateLimit: its last statement, status.lastRequestTime = Date.now()
stampRequest(status, t) == [status EXCEPT !.lastRequestTime = t]

markSuccess(status) ==
    [status EXCEPT !.available = TRUE,
                   !.requestCount = @ + 1,
                   !.lastError = Undefined]

\* mutant: the cooldown is the request interval, not the hour
markRateLimitedShort(status, t) ==
    [status EXCEPT !.available = FALSE,
                   !.rateLimitResetTime = Some(t + MIN_REQUEST_INTERVAL),
                   !.lastError = Some(RateLimitExceeded)]

markRateLimited(status, t) ==
    [status EXCEPT !.available = FALSE,
                   !.rateLimitResetTime = Some(t + RATE_LIMIT_COOLDOWN),
                   !.lastError = Some(RateLimitExceeded)]

\* mutant: any error disables the provider
markErrorDisables(status, error) ==
    [status EXCEPT !.lastError = Some(error), !.available = FALSE]

markError(status, error) == [status EXCEPT !.lastError = Some(error)]

\* getStatus: a copy of every entry of the map
getStatus == [p \in Providers |-> apiStatus[p]]

\* mutant: reset() forgets the available flag
resetStatusKeepsFlag(status) ==
    [status EXCEPT !.rateLimitResetTime = Undefined,
                   !.lastError = Undefined]

\* mutant: reset() leaves the end of the cooldown in place
resetStatusKeepsCooldown(status) ==
    [status EXCEPT !.available = TRUE,
                   !.lastError = Undefined]

\* reset(): applied to every entry
resetStatus(status) ==
    [status EXCEPT !.available = TRUE,
                   !.rateLimitResetTime = Undefined,
                   !.lastError = Undefined]

\* the catch block's test: error instanceof Error && error.message.includes('RATE_LIMIT')
isRateLimitError(error) == error.isError /\ Includes(error.message, RATE_LIMIT)

\* the catch block's argument to markError
errorText(error) == IF error.isError THEN error.message ELSE UnknownError

\* the catch block's effect on the provider's status
onCatch(status, error, t) ==
    IF isRateLimitError(error)
    THEN markRateLimited(status, t)
    ELSE markError(status, errorText(error))

\* the object returned on success
successResult(articles, status, fb) ==
    [state |-> "resolved", articles |-> articles, source |-> status.name,
     fallbackUsed |-> fb]

\* mutant: the last error is rethrown after the loop
noneResultThrows == [state |-> "rejected", source |-> "none"]

\* mutant: the result after the loop does not admit the fallback
noneResultUnflagged ==
    [state |-> "resolved", articles |-> <<>>, source |-> "none",
     fallbackUsed |-> FALSE]

\* the object returned after the loop
noneResult ==
    [state |-> "resolved", articles |-> <<>>, source |-> "none",
     fallbackUsed |-> TRUE]

----------------------------------------------------------------------------
(* What the upstream fetchers can do (they are outside this class) *)

\* NewsArticle[] values a fetch can resolve with; an article is <<provider, n>>
ArticleLists(p) == {<<>>, <<<<p, 1>>, <<p, 2>>>>}

\* values a fetch can throw
Thrown ==
    { [isError |-> TRUE, message |-> <<"4","2","9"," ">> \o RATE_LIMIT \o <<"!">>],
      [isError |-> TRUE, message |-> <<"R","A","T","E"," ","L","I","M","I","T">>],
      [isError |-> FALSE, message |-> RATE_LIMIT] }

\* clock advances offered to the model: 1 ms (inside the request interval)
\* and 1 ms short of the cooldown (with 1 ms more, its exact end)
Steps == {1, RATE_LIMIT_COOLDOWN - 1}

Calls == {"c1", "c2"}
\* the callers of the one-call-at-a-time specification
Sequential == {"c1"}

NoOutcome == [kind |-> "none"]

----------------------------------------------------------------------------
(* State after construction of the singleton *)

\* the manager as constructed, no call made yet
managerAtRest ==
    /\ apiStatus = InitialStatus
    /\ now = 2 * MIN_REQUEST_INTERVAL
    /\ pc = [c \in Calls |-> "idle"]
    /\ idx = [c \in Calls |-> 1]
    /\ fallbackUsed = [c \in Calls |-> FALSE]
    /\ wakeAt = [c \in Calls |-> 0]
    /\ result = [c \in Calls |-> [state |-> "pending"]]
    /\ fetched = [c \in Calls |-> <<>>]
    /\ outcome = [c \in Calls |-> [p \in Providers |-> NoOutcome]]
    /\ lastAttempt = [p \in Providers |-> Undefined]
    /\ callsMade = 0
    /\ ticks = 0

\* the program after construction: every component at rest
Init ==
    /\ managerAtRest
    /\ envAtRest
    /\ clfAtRest
    /\ newsAtRest
    /\ routeAtRest
    /\ redditAtRest
    /\ sentimentAtRest
    /\ detectorAtRest

\* a call that is inside a synchronous block (not suspended at an await)
Running(c) == pc[c] = "loop"
\* run to completion: nothing else executes while another call is running
MayRun(c) == \A d \in Calls \ {c} : ~Running(d)
\* a call that has been made and has not settled
Active(c) == pc[c] \in {"loop", "waiting", "fetching"}

\* the for-loop's continue condition
inLoop(c) == idx[c] <= Len(apis)

\* mutant: an empty list is returned like any other
hasArticlesAlways(articles) == Len(articles) >= 0

\* line 88: if (articles.length > 0)
hasArticles(articles) == Len(articles) > 0

----------------------------------------------------------------------------
(* fetchNewsWithFallback, one action per synchronous block *)

\* the call is made: locals initialised, the loop is entered (at most
\* 'most' calls are made in a behaviour)
StartWithin(c, most) ==
    /\ pc[c] \in {"idle", "done"}
    /\ MayRun(c)
    /\ callsMade < most
    /\ callsMade' = callsMade + 1
    /\ pc' = [pc EXCEPT ![c] = "loop"]
    /\ idx' = [idx EXCEPT ![c] = 1]
    /\ fallbackUsed' = [fallbackUsed EXCEPT ![c] = FALSE]
    /\ result' = [result EXCEPT ![c] = [state |-> "pending"]]
    /\ fetched' = [fetched EXCEPT ![c] = <<>>]
    /\ outcome' = [outcome EXCEPT ![c] = [p \in Providers |-> NoOutcome]]
    /\ UNCHANGED <<apiStatus, now, wakeAt, lastAttempt, ticks>>
    /\ UNCHANGED outsideManager

Start(c) == StartWithin(c, MaxCalls)

\* the end of waitForRateLimit and the invocation of api.fetch()
invokeFetch(c, p, status, t) ==
    /\ apiStatus' = [apiStatus EXCEPT ![p] = stampRequest(status, t)]
    /\ fetched' = [fetched EXCEPT ![c] = Append(@, p)]
    /\ lastAttempt' = [lastAttempt EXCEPT ![p] = Some(t)]
    /\ pc' = [pc EXCEPT ![c] = "fetching"]

\* top of a loop iteration: isAPIAvailable, then waitForRateLimit up to its await
LoopStep(c) ==
    /\ pc[c] = "loop"
    /\ inLoop(c)
    /\ MayRun(c)
    /\ LET p == apis[idx[c]]
           r == isAPIAvailable(apiStatus[p], now)
           w == waitTime(r.status, now)
       IN  IF ~r.ret
           THEN /\ apiStatus' = [apiStatus EXCEPT ![p] = r.status]
                /\ fallbackUsed' = [fallbackUsed EXCEPT ![c] = TRUE]
                /\ idx' = [idx EXCEPT ![c] = @ + 1]
                /\ outcome' = [outcome EXCEPT ![c][p] = [kind |-> "skipped"]]
                /\ UNCHANGED <<pc, wakeAt, fetched, lastAttempt>>
           ELSE IF w > 0
           THEN /\ apiStatus' = [apiStatus EXCEPT ![p] = r.status]
                /\ wakeAt' = [wakeAt EXCEPT ![c] = now + w]
                /\ pc' = [pc EXCEPT ![c] = "waiting"]
                /\ UNCHANGED <<fallbackUsed, idx, outcome, fetched, lastAttempt>>
           ELSE /\ invokeFetch(c, p, r.status, now)
                /\ UNCHANGED <<fallbackUsed, idx, outcome, wakeAt>>
    /\ UNCHANGED <<now, result, callsMade, ticks>>
    /\ UNCHANGED outsideManager

\* the setTimeout of waitForRateLimit fires (at its due instant or later)
TimerFires(c) ==
    /\ pc[c] = "waiting"
    /\ MayRun(c)
    /\ LET p == apis[idx[c]]
           t == IF now < wakeAt[c] THEN wakeAt[c] ELSE now
       IN  /\ now' = t
           /\ invokeFetch(c, p, apiStatus[p], t)
    /\ UNCHANGED <<idx, fallbackUsed, wakeAt, result, outcome, callsMade, ticks>>
    /\ UNCHANGED outsideManager

\* api.fetch() resolves with articles
FetchReturns(c, articles) ==
    /\ pc[c] = "fetching"
    /\ MayRun(c)
    /\ LET p == apis[idx[c]]
           status == markSuccess(apiStatus[p])
       IN  /\ articles \in ArticleLists(p)
           /\ apiStatus' = [apiStatus EXCEPT ![p] = status]
           /\ outcome' = [outcome EXCEPT ![c][p] =
                             [kind |-> "returned", articles |-> articles]]
           /\ IF hasArticles(articles)
              THEN /\ result' = [result EXCEPT ![c] =
                                    successResult(articles, status, fallbackUsed[c])]
                   /\ pc' = [pc EXCEPT ![c] = "done"]
                   /\ UNCHANGED <<fallbackUsed, idx>>
              ELSE /\ fallbackUsed' = [fallbackUsed EXCEPT ![c] = TRUE]
                   /\ idx' = [idx EXCEPT ![c] = @ + 1]
                   /\ pc' = [pc EXCEPT ![c] = "loop"]
                   /\ UNCHANGED result
    /\ wakeAt' = [wakeAt EXCEPT ![c] = 0]
    /\ UNCHANGED <<now, fetched, lastAttempt, callsMade, ticks>>
    /\ UNCHANGED outsideManager

\* mutant: a provider that threw is tried once more before moving on
FetchThrowsRetry(c, error) ==
    /\ pc[c] = "fetching"
    /\ MayRun(c)
    /\ error \in Thrown
    /\ LET p == apis[idx[c]]
       IN  /\ apiStatus' = [apiStatus EXCEPT ![p] = onCatch(@, error, now)]
           /\ IF Len(fetched[c]) < 4
              THEN idx' = idx /\ outcome' = outcome
              ELSE /\ idx' = [idx EXCEPT ![c] = @ + 1]
                   /\ outcome' = [outcome EXCEPT ![c][p] =
                                     [kind |-> "threw", error |-> error]]
    /\ fallbackUsed' = [fallbackUsed EXCEPT ![c] = TRUE]
    /\ pc' = [pc EXCEPT ![c] = "loop"]
    /\ wakeAt' = [wakeAt EXCEPT ![c] = 0]
    /\ UNCHANGED <<now, result, fetched, lastAttempt, callsMade, ticks>>
    /\ UNCHANGED outsideManager

\* api.fetch() rejects with error: the catch block
FetchThrows(c, error) ==
    /\ pc[c] = "fetching"
    /\ MayRun(c)
    /\ error \in Thrown
    /\ LET p == apis[idx[c]]
       IN  /\ apiStatus' = [apiStatus EXCEPT ![p] = onCatch(@, error, now)]
           /\ outcome' = [outcome EXCEPT ![c][p] =
                             [kind |-> "threw", error |-> error]]
    /\ fallbackUsed' = [fallbackUsed EXCEPT ![c] = TRUE]
    /\ idx' = [idx EXCEPT ![c] = @ + 1]
    /\ pc' = [pc EXCEPT ![c] = "loop"]
    /\ wakeAt' = [wakeAt EXCEPT ![c] = 0]
    /\ UNCHANGED <<now, result, fetched, lastAttempt, callsMade, ticks>>
    /\ UNCHANGED outsideManager

\* the loop is over: 'All news APIs failed or rate limited'
ReturnNone(c) ==
    /\ pc[c] = "loop"
    /\ ~inLoop(c)
    /\ MayRun(c)
    /\ result' = [result EXCEPT ![c] = noneResult]
    /\ pc' = [pc EXCEPT ![c] = "done"]
    /\ UNCHANGED <<apiStatus, now, idx, fallbackUsed, wakeAt, fetched,
                   outcome, lastAttempt, callsMade, ticks>>
    /\ UNCHANGED outsideManager

----------------------------------------------------------------------------
(* The other operations *)

\* reset(), called between synchronous blocks
Reset ==
    /\ \A c \in Calls : ~Running(c)
    /\ apiStatus' = [p \in Providers |-> resetStatus(apiStatus[p])]
    /\ apiStatus' # apiStatus
    /\ UNCHANGED <<now, pc, idx, fallbackUsed, wakeAt, result,
                   fetched, outcome, lastAttempt, callsMade, ticks>>
    /\ UNCHANGED outsideManager

\* time passes while nothing is running (by one of 'steps', at most 'most'
\* times in a behaviour)
Advance(steps, most) ==
    /\ \A c \in Calls : ~Running(c)
    /\ ticks < most
    /\ \E d \in steps : now' = now + d
    /\ ticks' = ticks + 1
    /\ UNCHANGED <<apiStatus, pc, idx, fallbackUsed, wakeAt, result,
                   fetched, outcome, lastAttempt, callsMade>>
    /\ UNCHANGED outsideManager

Tick == Advance(Steps, MaxTicks)

CallStep(c) ==
    \/ Start(c)
    \/ LoopStep(c)
    \/ TimerFires(c)
    \/ \E articles \in ArticleLists(apis[IF inLoop(c) THEN idx[c] ELSE 1]) :
          FetchReturns(c, articles)
    \/ \E error \in Thrown : FetchThrows(c, error)
    \/ ReturnNone(c)

\* calls are made one at a time
Next ==
    \/ \E c \in Sequential : CallStep(c)
    \/ Reset
    \/ Tick

Spec == Init /\ [][Next]_vars

\* the manager in an environment where any of the two API keys may be missing
\* (neither the constructor nor isAPIAvailable reads process.env)
KeyInit ==
    /\ managerAtRest
    /\ apiKey \in [Providers -> BOOLEAN]
    /\ clfAtRest
    /\ newsAtRest
    /\ routeAtRest
    /\ redditAtRest
    /\ sentimentAtRest
    /\ detectorAtRest

KeySpec == KeyInit /\ [][Next]_vars

\* what the event loop owes a call that has been made: its next synchronous
\* block runs, its timer fires, its upstream fetch returns or throws
Progress(c) ==
    \/ LoopStep(c)
    \/ TimerFires(c)
    \/ ReturnNone(c)
    \/ \E articles \in ArticleLists("newsapi") \cup ArticleLists("finnhub") :
          FetchReturns(c, articles)
    \/ \E error \in Thrown : FetchThrows(c, error)

\* calls made one at a time, every timer and every upstream fetch completing
FairSpec == Spec /\ \A c \in Sequential : WF_vars(Progress(c))

----------------------------------------------------------------------------
(* Vocabulary of the properties *)

\* the provider's cooldown window is open at the current instant
InCooldown(p) == \E r \in apiStatus[p].rateLimitResetTime : now < r

\* the provider's turn in call c ended with a fetch that returned articles
Returned(c, p) == outcome[c][p].kind = "returned"
ReturnedSome(c, p) == Returned(c, p) /\ Len(outcome[c][p].articles) >= 1
ReturnedZero(c, p) == Returned(c, p) /\ Len(outcome[c][p].articles) = 0
Skipped(c, p) == outcome[c][p].kind = "skipped"
Threw(c, p) == outcome[c][p].kind = "threw"

\* the thrown value is an Error whose message contains 'RATE_LIMIT'
RateLimitMessage(e) ==
    /\ e.isError
    /\ \E i \in 1..Len(e.message) :
          /\ i + 9 <= Len(e.message)
          /\ e.message[i] = "R" /\ e.message[i + 1] = "A" /\ e.message[i + 2] = "T"
          /\ e.message[i + 3] = "E" /\ e.message[i + 4] = "_" /\ e.message[i + 5] = "L"
          /\ e.message[i + 6] = "I" /\ e.message[i + 7] = "M" /\ e.message[i + 8] = "I"
          /\ e.message[i + 9] = "T"

\* call c takes a step
CallMoves(c) == pc'[c] # pc[c] \/ idx'[c] # idx[c] \/ fetched'[c] # fetched[c]

\* in this step the fetch of provider p in call c throws
ThrowsNow(c, p) == pc[c] = "fetching" /\ outcome[c][p].kind = "none" /\ outcome'[c][p].kind = "threw"

\* in this step the fetch of provider p in call c returns
ReturnsNow(c, p) == pc[c] = "fetching" /\ outcome[c][p].kind = "none" /\ outcome'[c][p].kind = "returned"

\* in this step call c invokes the fetch of provider p
FetchesNow(c, p) == fetched'[c] = Append(fetched[c], p)

\* after this step call c is fetching p or sleeping before that fetch
AttemptsNow(c, p) ==
    \/ FetchesNow(c, p)
    \/ pc'[c] = "waiting" /\ idx'[c] = idx[c] /\ apis[idx[c]] = p

----------------------------------------------------------------------------
(* C1 *)

\* C1: in a call the providers are fetched in the order newsapi, finnhub, one
\* at a time (finnhub only after newsapi's turn has ended); once a fetch has
\* returned at least one article the call is done with exactly those articles
\* and nothing is fetched after it.
C1_OrderedFirstSuccess ==
    \A c \in Calls :
        /\ fetched[c] \in {<<>>, <<"newsapi">>, <<"finnhub">>, <<"newsapi", "finnhub">>}
        /\ "finnhub" \in {fetched[c][i] : i \in 1..Len(fetched[c])}
              => outcome[c]["newsapi"].kind # "none"
        /\ pc[c] = "fetching" => \A p \in Providers : ~ReturnedSome(c, p)
        /\ ReturnedSome(c, "newsapi") =>
              /\ pc[c] = "done"
              /\ fetched[c] = <<"newsapi">>
              /\ outcome[c]["finnhub"].kind = "none"
              /\ result[c].articles = outcome[c]["newsapi"].articles
              /\ result[c].source = "NewsAPI.org"
        /\ ReturnedSome(c, "finnhub") =>
              /\ pc[c] = "done"
              /\ ~ReturnedSome(c, "newsapi")
              /\ fetched[c][Len(fetched[c])] = "finnhub"
              /\ result[c].articles = outcome[c]["finnhub"].articles
              /\ result[c].source = "Finnhub"
        /\ pc[c] = "done" /\ Len(result[c].articles) >= 1 =>
              \E p \in Providers :
                  ReturnedSome(c, p) /\ result[c].articles = outcome[c][p].articles

\* a call that fell back: newsapi was fetched without success, then finnhub delivered
C1_Witness ==
    \E c \in Calls :
        /\ pc[c] = "done"
        /\ fetched[c] = <<"newsapi", "finnhub">>
        /\ ReturnedSome(c, "finnhub")
        /\ result[c].source = "Finnhub"

----------------------------------------------------------------------------
(* C2 *)

\* C2: when a fetch throws an Error whose message contains 'RATE_LIMIT', that
\* provider gets available = false and rateLimitResetTime = now + 3,600,000 ms,
\* and the call, still unsettled, moves to the next position of the loop.
C2_RateLimitMarksCooldown ==
    [][\A c \in Calls : \A p \in Providers :
          (ThrowsNow(c, p) /\ RateLimitMessage(outcome'[c][p].error)) =>
              /\ apiStatus'[p].available = FALSE
              /\ apiStatus'[p].rateLimitResetTime = {now + 3600000}
              /\ pc'[c] = "loop"
              /\ idx'[c] = idx[c] + 1
              /\ result'[c].state = "pending"]_vars

\* newsapi has just thrown a rate-limit error and the call stands before finnhub
C2_Witness ==
    \E c \in Calls :
        /\ pc[c] = "loop"
        /\ idx[c] = 2
        /\ Threw(c, "newsapi")
        /\ RateLimitMessage(outcome[c]["newsapi"].error)
        /\ ~apiStatus["newsapi"].available
        /\ apiStatus["newsapi"].rateLimitResetTime = {now + 3600000}

----------------------------------------------------------------------------
(* C3 *)

\* C3: a call that starts while newsapi's cooldown window is open does not
\* fetch newsapi and goes straight to finnhub; finnhub, unless in cooldown
\* itself, is then attempted (fetched at once, or after the throttling sleep,
\* which can only end in that fetch).
C3_CooldownSkipsAThenB ==
    [][\A c \in Calls :
          /\ (pc[c] = "loop" /\ idx[c] = 1 /\ InCooldown("newsapi") /\ CallMoves(c)) =>
                /\ fetched'[c] = <<>>
                /\ pc'[c] = "loop"
                /\ idx'[c] = 2
                /\ outcome'[c]["newsapi"].kind = "skipped"
                /\ lastAttempt'["newsapi"] = lastAttempt["newsapi"]
          /\ (pc[c] = "loop" /\ idx[c] = 2 /\ Skipped(c, "newsapi")
                /\ ~InCooldown("finnhub") /\ CallMoves(c)) =>
                AttemptsNow(c, "finnhub")
          /\ (pc[c] = "waiting" /\ CallMoves(c)) => FetchesNow(c, apis[idx[c]])]_vars

\* newsapi is in cooldown and was skipped; finnhub is being fetched
C3_Witness ==
    \E c \in Calls :
        /\ pc[c] = "fetching"
        /\ InCooldown("newsapi")
        /\ Skipped(c, "newsapi")
        /\ fetched[c] = <<"finnhub">>

----------------------------------------------------------------------------
(* C4 *)

\* C4: a call that starts at or after the rateLimitResetTime of a rate-limited
\* newsapi attempts newsapi first (nothing was fetched before it), and that
\* step leaves newsapi with available = true and no rateLimitResetTime.
C4_CooldownOverRetriesA ==
    [][\A c \in Calls :
          (/\ pc[c] = "loop" /\ idx[c] = 1
           /\ apiStatus["newsapi"].rateLimitResetTime # {}
           /\ \A r \in apiStatus["newsapi"].rateLimitResetTime : now >= r
           /\ CallMoves(c)) =>
              /\ fetched[c] = <<>>
              /\ AttemptsNow(c, "newsapi")
              /\ apiStatus'["newsapi"].available = TRUE
              /\ apiStatus'["newsapi"].rateLimitResetTime = {}]_vars

\* newsapi, rate-limited an hour ago or more, is being fetched again
C4_Witness ==
    \E c \in Calls :
        /\ pc[c] = "fetching"
        /\ fetched[c] = <<"newsapi">>
        /\ apiStatus["newsapi"].lastError = {RateLimitExceeded}
        /\ apiStatus["newsapi"].available
        /\ apiStatus["newsapi"].rateLimitResetTime = {}

----------------------------------------------------------------------------
(* C5 *)

\* C5: when a fetch throws an Error whose message does not contain
\* 'RATE_LIMIT', lastError becomes that message, the provider is available
\* afterwards, its rateLimitResetTime is as before (none), and the call,
\* still unsettled, moves to the next position of the loop.
C5_OtherErrorKeepsAvailable ==
    [][\A c \in Calls : \A p \in Providers :
          (/\ ThrowsNow(c, p)
           /\ outcome'[c][p].error.isError
           /\ ~RateLimitMessage(outcome'[c][p].error)) =>
              /\ apiStatus'[p].lastError = {outcome'[c][p].error.message}
              /\ apiStatus'[p].available = TRUE
              /\ apiStatus'[p].rateLimitResetTime = apiStatus[p].rateLimitResetTime
              /\ apiStatus'[p].rateLimitResetTime = {}
              /\ pc'[c] = "loop"
              /\ idx'[c] = idx[c] + 1
              /\ result'[c].state = "pending"]_vars

\* newsapi has just thrown an ordinary error and the call stands before finnhub
C5_Witness ==
    \E c \in Calls :
        /\ pc[c] = "loop"
        /\ idx[c] = 2
        /\ Threw(c, "newsapi")
        /\ outcome[c]["newsapi"].error.isError
        /\ ~RateLimitMessage(outcome[c]["newsapi"].error)
        /\ apiStatus["newsapi"].lastError = {outcome[c]["newsapi"].error.message}
        /\ apiStatus["newsapi"].available

----------------------------------------------------------------------------
(* C6 *)

\* C6: the promise of a call is never rejected; a finished call has resolved,
\* and when no provider returned an article it resolved with
\* articles = [], source = 'none', fallbackUsed = true.
C6_NeverRejects ==
    \A c \in Calls :
        /\ result[c].state \in {"pending", "resolved"}
        /\ pc[c] = "done" => result[c].state = "resolved"
        /\ (pc[c] = "done" /\ \A p \in Providers : ~ReturnedSome(c, p)) =>
              /\ result[c].articles = <<>>
              /\ result[c].source = "none"
              /\ result[c].fallbackUsed = TRUE

\* a finished call in which one provider was skipped and the other threw
C6_Witness ==
    \E c \in Calls :
        /\ pc[c] = "done"
        /\ Skipped(c, "newsapi")
        /\ Threw(c, "finnhub")
        /\ result[c].source = "none"

----------------------------------------------------------------------------
(* C7 *)

\* C7 as stated: in every reachable state and for every provider, available
\* is false only while the current time is before rateLimitResetTime.
C7_AsStated ==
    \A p \in Providers :
        ~getStatus[p].available =>
            \E r \in getStatus[p].rateLimitResetTime : now < r

\* C7 as amended: in every reachable state and for every provider, available
\* is false only while a rateLimitResetTime is set (the flag is cleared by an
\* availability check or by reset(), not by the clock).
C7_UnavailableHasResetTime ==
    \A p \in Providers :
        ~getStatus[p].available =>
            \E r \in getStatus[p].rateLimitResetTime : r > 0

\* the cooldown is over and the flag still says unavailable
C7_Witness ==
    \E p \in Providers :
        /\ ~getStatus[p].available
        /\ \E r \in getStatus[p].rateLimitResetTime : now >= r

----------------------------------------------------------------------------
(* C8 *)

\* C8 as stated: when newsapi's fetch returns zero articles the call does not
\* return that result, finnhub is attempted (fetched) and fallbackUsed is true.
C8_AsStated ==
    \A c \in Calls :
        (pc[c] = "done" /\ ReturnedZero(c, "newsapi")) =>
            /\ result[c].source # "NewsAPI.org"
            /\ "finnhub" \in {fetched[c][i] : i \in 1..Len(fetched[c])}
            /\ result[c].fallbackUsed = TRUE

\* C8 as amended: a fetch that returns zero articles does not settle the
\* call; fallbackUsed becomes true, the provider stays available with no
\* cooldown, and the loop moves to the next provider, which is attempted
\* unless its own cooldown window is open (then it is skipped).
C8_ZeroIsSoftFailure ==
    [][\A c \in Calls :
          /\ \A p \in Providers :
                (ReturnsNow(c, p) /\ Len(outcome'[c][p].articles) = 0) =>
                    /\ result'[c].state = "pending"
                    /\ pc'[c] = "loop"
                    /\ idx'[c] = idx[c] + 1
                    /\ fallbackUsed'[c] = TRUE
                    /\ apiStatus'[p].available = TRUE
                    /\ apiStatus'[p].rateLimitResetTime = {}
          /\ (pc[c] = "loop" /\ idx[c] = 2 /\ ReturnedZero(c, "newsapi") /\ CallMoves(c)) =>
                IF InCooldown("finnhub")
                THEN outcome'[c]["finnhub"].kind = "skipped" /\ fetched'[c] = fetched[c]
                ELSE AttemptsNow(c, "finnhub")
          /\ (pc'[c] = "done" /\ \E p \in Providers : ReturnedZero(c, p)) =>
                result'[c].fallbackUsed = TRUE]_vars

\* newsapi returned nothing and finnhub is being fetched in the same call
C8_Witness ==
    \E c \in Calls :
        /\ pc[c] = "fetching"
        /\ ReturnedZero(c, "newsapi")
        /\ fetched[c] = <<"newsapi", "finnhub">>
        /\ fallbackUsed[c]

----------------------------------------------------------------------------
(* C9 *)

\* C9: with calls made one at a time, a fetch of a provider starts at least
\* 1000 ms after the previous fetch of the same provider.
C9_MinimumSpacing ==
    [][\A c \in Calls : \A p \in Providers :
          FetchesNow(c, p) => \A t \in lastAttempt[p] : now' - t >= 1000]_vars

\* a second call is fetching newsapi right after sleeping out the interval
C9_Witness ==
    \E c \in Calls :
        /\ pc[c] = "fetching"
        /\ idx[c] = 1
        /\ callsMade >= 2
        /\ wakeAt[c] = now
        /\ lastAttempt["newsapi"] = {now}

----------------------------------------------------------------------------
(* C10 *)

\* C10: a call invokes each provider's fetch at most once (two fetches at
\* most); and if every timer and every upstream fetch completes, a call that
\* has been made eventually settles.
C10_OneFetchEachAndTerminates ==
    /\ [][\A c \in Calls : \A p \in Providers :
            FetchesNow(c, p) =>
                /\ \A i \in 1..Len(fetched[c]) : fetched[c][i] # p
                /\ Len(fetched'[c]) <= 2]_vars
    /\ \A c \in Sequential : Active(c) ~> (pc[c] = "done" /\ result[c].state = "resolved")

\* a settled call that used its whole budget: both providers fetched, none delivered
C10_Witness ==
    \E c \in Calls :
        /\ pc[c] = "done"
        /\ Len(fetched[c]) = 2
        /\ result[c].source = "none"

----------------------------------------------------------------------------
(***************************************************************************)
(* The keyword classifiers (src/lib/news/news-fetcher.ts).  A text is a    *)
(* sequence of one-character strings, as the code searches it with         *)
(* String.prototype.includes after String.prototype.toLowerCase.           *)
(***************************************************************************)

UpperCase == <<"A","B","C","D","E","F","G","H","I","J","K","L","M","N","O","P","Q","R","S","T","U","V","W","X","Y","Z">>
LowerCase == <<"a","b","c","d","e","f","g","h","i","j","k","l","m","n","o","p","q","r","s","t","u","v","w","x","y","z">>

\* String.prototype.toLowerCase, one character
lowerChar(ch) ==
    IF \E i \in DOMAIN UpperCase : UpperCase[i] = ch
    THEN LowerCase[CHOOSE i \in DOMAIN UpperCase : UpperCase[i] = ch]
    ELSE ch

\* String.prototype.toLowerCase
toLowerCase(s) == [i \in DOMAIN s |-> lowerChar(s[i])]

\* line 115
positiveKeywords == <<
       <<"s","u","r","g","e">>,
       <<"g","a","i","n">>,
       <<"u","p","g","r","a","d","e">>,
       <<"g","r","o","w","t","h">>,
       <<"e","x","p","a","n","s","i","o","n">>,
       <<"p","r","o","f","i","t">>,
       <<"b","e","a","t">>,
       <<"s","t","r","o","n","g">>,
       <<"b","u","l","l","i","s","h">>,
       <<"r","a","l","l","y">>,
       <<"s","o","a","r">>,
       <<"j","u","m","p">>,
       <<"r","i","s","e">>,
       <<"b","o","o","s","t">>,
       <<"o","u","t","p","e","r","f","o","r","m">>,
       <<"r","e","c","o","r","d">>,
       <<"b","r","e","a","k","t","h","r","o","u","g","h">>,
       <<"i","n","n","o","v","a","t","i","o","n">>,
       <<"p","a","r","t","n","e","r","s","h","i","p">>,
       <<"a","c","q","u","i","s","i","t","i","o","n">>,
       <<"r","e","v","e","n","u","e"," ","g","r","o","w","t","h">>,
       <<"e","a","r","n","i","n","g","s"," ","b","e","a","t">>,
       <<"p","o","s","i","t","i","v","e"," ","o","u","t","l","o","o","k">>,
       <<"a","n","a","l","y","s","t"," ","u","p","g","r","a","d","e">>,
       <<"p","r","i","c","e"," ","t","a","r","g","e","t"," ","i","n","c","r","e","a","s","e">>,
       <<"n","e","w"," ","p","r","o","d","u","c","t"," ","l","a","u","n","c","h">>,
       <<"m","a","r","k","e","t"," ","s","h","a","r","e"," ","g","a","i","n">>,
       <<"s","t","r","o","n","g"," ","g","u","i","d","a","n","c","e">>,
       <<"i","n","s","t","i","t","u","t","i","o","n","a","l"," ","b","u","y","i","n","g">>,
       <<"i","n","s","i","d","e","r"," ","b","u","y","i","n","g">>,
       <<"h","i","g","h"," ","d","e","m","a","n","d">>,
       <<"s","u","p","p","l","y"," ","c","h","a","i","n"," ","i","m","p","r","o","v","e","m","e","n","t">>,
       <<"c","o","s","t"," ","r","e","d","u","c","t","i","o","n">>,
       <<"m","a","r","g","i","n"," ","e","x","p","a","n","s","i","o","n">>,
       <<"c","a","s","h"," ","f","l","o","w"," ","i","m","p","r","o","v","e","m","e","n","t">>,
       <<"d","e","b","t"," ","r","e","d","u","c","t","i","o","n">>,
       <<"s","h","a","r","e"," ","b","u","y","b","a","c","k">>,
       <<"d","i","v","i","d","e","n","d"," ","i","n","c","r","e","a","s","e">>,
       <<"p","o","s","i","t","i","v","e"," ","s","e","n","t","i","m","e","n","t">>,
       <<"b","u","l","l","i","s","h"," ","s","e","n","t","i","m","e","n","t">>,
       <<"u","p","w","a","r","d"," ","m","o","m","e","n","t","u","m">>,
       <<"t","e","c","h","n","i","c","a","l"," ","b","r","e","a","k","o","u","t">>,
       <<"f","a","v","o","r","a","b","l","e"," ","a","n","a","l","y","s","t"," ","r","e","p","o","r","t">>,
       <<"s","t","r","o","n","g"," ","e","a","r","n","i","n","g","s"," ","r","e","p","o","r","t">>,
       <<"p","o","s","i","t","i","v","e"," ","n","e","w","s"," ","f","l","o","w">>,
       <<"i","n","c","r","e","a","s","e","d"," ","t","r","a","d","i","n","g"," ","v","o","l","u","m","e">>,
       <<"s","h","o","r","t"," ","s","q","u","e","e","z","e">>,
       <<"p","o","s","i","t","i","v","e"," ","s","o","c","i","a","l"," ","m","e","d","i","a"," ","s","e","n","t","i","m","e","n","t">>,
       <<"i","n","f","l","u","e","n","c","e","r"," ","e","n","d","o","r","s","e","m","e","n","t">>,
       <<"c","e","l","e","b","r","i","t","y"," ","e","n","d","o","r","s","e","m","e","n","t">>,
       <<"f","a","v","o","r","a","b","l","e"," ","i","n","d","u","s","t","r","y"," ","t","r","e","n","d","s">> >>

\* line 116 (six phrases are listed twice)
negativeKeywords == <<
       <<"f","a","l","l">>,
       <<"d","r","o","p">>,
       <<"d","o","w","n","g","r","a","d","e">>,
       <<"l","o","s","s">>,
       <<"d","e","c","l","i","n","e">>,
       <<"w","e","a","k">>,
       <<"m","i","s","s">>,
       <<"b","e","a","r","i","s","h">>,
       <<"c","r","a","s","h">>,
       <<"p","l","u","n","g","e">>,
       <<"l","a","y","o","f","f","s">>,
       <<"f","i","r","e","d">>,
       <<"t","e","r","m","i","n","a","t","e","d">>,
       <<"l","a","w","s","u","i","t">>,
       <<"i","n","v","e","s","t","i","g","a","t","i","o","n">>,
       <<"r","e","g","u","l","a","t","o","r","y"," ","s","c","r","u","t","i","n","y">>,
       <<"b","a","n","k","r","u","p","t","c","y">>,
       <<"d","e","l","i","s","t","i","n","g">>,
       <<"s","c","a","n","d","a","l">>,
       <<"f","r","a","u","d">>,
       <<"p","e","n","a","l","t","y">>,
       <<"f","i","n","e">>,
       <<"w","a","r","n","i","n","g">>,
       <<"c","o","n","c","e","r","n">>,
       <<"r","i","s","k">>,
       <<"t","h","r","e","a","t">>,
       <<"u","n","c","e","r","t","a","i","n","t","y">>,
       <<"v","o","l","a","t","i","l","i","t","y">>,
       <<"h","e","a","d","w","i","n","d">>,
       <<"c","h","a","l","l","e","n","g","e">>,
       <<"d","o","w","n","t","u","r","n">>,
       <<"r","e","c","e","s","s","i","o","n">>,
       <<"s","l","o","w","d","o","w","n">>,
       <<"m","i","s","s","e","d"," ","e","x","p","e","c","t","a","t","i","o","n","s">>,
       <<"b","a","n","k","r","u","p","t","c","y"," ","r","i","s","k">>,
       <<"d","e","l","i","s","t","i","n","g"," ","r","i","s","k">>,
       <<"s","c","a","n","d","a","l"," ","r","i","s","k">>,
       <<"f","r","a","u","d"," ","r","i","s","k">>,
       <<"p","e","n","a","l","t","y"," ","r","i","s","k">>,
       <<"f","i","n","e"," ","r","i","s","k">>,
       <<"w","a","r","n","i","n","g"," ","r","i","s","k">>,
       <<"c","o","n","c","e","r","n"," ","r","i","s","k">>,
       <<"r","i","s","k"," ","o","f"," ","d","e","c","l","i","n","e">>,
       <<"r","i","s","k"," ","o","f"," ","l","o","s","s">>,
       <<"r","i","s","k"," ","o","f"," ","d","r","o","p">>,
       <<"r","i","s","k"," ","o","f"," ","f","a","l","l">>,
       <<"r","i","s","k"," ","o","f"," ","b","a","n","k","r","u","p","t","c","y">>,
       <<"r","i","s","k"," ","o","f"," ","d","e","l","i","s","t","i","n","g">>,
       <<"s","c","a","n","d","a","l"," ","r","i","s","k">>,
       <<"f","r","a","u","d"," ","r","i","s","k">>,
       <<"p","e","n","a","l","t","y"," ","r","i","s","k">>,
       <<"f","i","n","e"," ","r","i","s","k">>,
       <<"w","a","r","n","i","n","g"," ","r","i","s","k">>,
       <<"c","o","n","c","e","r","n"," ","r","i","s","k">> >>

\* lines 408-412
bullishKeywords == <<
       <<"m","o","o","n">>,
       <<"r","o","c","k","e","t">>,
       <<"c","a","l","l","s">>,
       <<"b","u","y">>,
       <<"b","u","l","l","i","s","h">>,
       <<"l","o","n","g">>,
       <<"y","o","l","o">>,
       <<"t","e","n","d","i","e","s">>,
       <<"d","i","a","m","o","n","d"," ","h","a","n","d","s">>,
       <<"h","o","l","d">>,
       <<"h","o","d","l">>,
       <<"t","o"," ","t","h","e"," ","m","o","o","n">>,
       <<"s","q","u","e","e","z","e">>,
       <<"r","a","l","l","y">>,
       <<"b","r","e","a","k","o","u","t">>,
       <<"p","u","m","p">>,
       <<"g","a","i","n","s">>,
       <<"p","r","o","f","i","t">>,
       <<"w","i","n">>,
       <<"u","p">>,
       <<"g","r","e","e","n">>,
       <<"b","u","l","l">> >>

\* lines 414-418
bearishKeywords == <<
       <<"p","u","t","s">>,
       <<"s","h","o","r","t">>,
       <<"b","e","a","r","i","s","h">>,
       <<"s","e","l","l">>,
       <<"c","r","a","s","h">>,
       <<"d","u","m","p">>,
       <<"l","o","s","s">>,
       <<"r","e","d">>,
       <<"b","e","a","r">>,
       <<"d","o","w","n">>,
       <<"f","a","l","l">>,
       <<"d","r","o","p">>,
       <<"t","a","n","k">>,
       <<"p","l","u","n","g","e">>,
       <<"c","o","l","l","a","p","s","e">>,
       <<"d","e","a","d">>,
       <<"r","i","p">>,
       <<"b","a","g","h","o","l","d","i","n","g">>,
       <<"p","a","p","e","r"," ","h","a","n","d","s">>,
       <<"r","u","g"," ","p","u","l","l">>,
       <<"s","c","a","m">> >>

\* mutant: a text counts once, however many keywords it holds
scoreAnyHit(keywords, text) ==
    IF \E i \in DOMAIN keywords : Includes(text, keywords[i]) THEN 1 ELSE 0

\* keywords.filter(kw => text.includes(kw)).length
score(keywords, text) ==
    Len(SelectSeq(keywords, LAMBDA kw : Includes(text, kw)))

\* line 119: (article.title + ' ' + article.snippet).toLowerCase()
articleText(article) ==
    toLowerCase(article.title \o <<" ">> \o article.snippet)

\* mutant: a tie of the two scores goes to positive
labelOfTieUp(positiveScore, negativeScore) ==
    IF positiveScore >= negativeScore THEN "positive" ELSE "negative"

\* lines 124-129: let sentiment = 'neutral'; if ... else if ...
labelOf(positiveScore, negativeScore) ==
    IF positiveScore > negativeScore THEN "positive"
    ELSE IF negativeScore > positiveScore THEN "negative"
    ELSE "neutral"

\* lines 118-132: the callback of articles.map: { ...article, sentiment }
withSentiment(article) ==
    LET text == articleText(article)
        positiveScore == score(positiveKeywords, text)
        negativeScore == score(negativeKeywords, text)
        sentiment == labelOf(positiveScore, negativeScore)
    IN  [f \in (DOMAIN article) \cup {"sentiment"} |->
            IF f = "sentiment" THEN sentiment ELSE article[f]]

\* mutant: the bearish score is compared first, and wins a tie
redditLabelOfBearFirst(bullishScore, bearishScore) ==
    IF bearishScore >= bullishScore THEN "bearish"
    ELSE "bullish"

\* lines 425-427
redditLabelOf(bullishScore, bearishScore) ==
    IF bullishScore > bearishScore THEN "bullish"
    ELSE IF bearishScore > bullishScore THEN "bearish"
    ELSE "neutral"

\* lines 407-428: analyzeSentiment(text) of the Reddit scraper
redditAnalyzeSentiment(text) ==
    LET lowerText == toLowerCase(text)
        bullishScore == score(bullishKeywords, lowerText)
        bearishScore == score(bearishKeywords, lowerText)
    IN  redditLabelOf(bullishScore, bearishScore)

----------------------------------------------------------------------------
(***************************************************************************)
(* fetchStockNews (src/lib/news/news-fetcher.ts, lines 39-200).  An        *)
(* article is a record of its title, snippet and source (url and           *)
(* publishedAt play no part); sentiment is the optional field.             *)
(***************************************************************************)

\* the largest article list a provider answers with
MaxArticles == 2

\* an array element that is no object: reading its title throws a TypeError
Null == [null |-> TRUE]

\* lines 139-172: const mockArticles
mockArticles(s) ==
    << [title |-> s \o <<" ","a","n","n","o","u","n","c","e","s"," ","m","a","j","o","r"," ","e","x","p","a","n","s","i","o","n"," ","p","l","a","n","s">>,
        source |-> "Bloomberg",
        snippet |-> <<"C","o","m","p","a","n","y"," ","a","n","n","o","u","n","c","e","s"," ","s","i","g","n","i","f","i","c","a","n","t"," ","i","n","v","e","s","t","m","e","n","t"," ","i","n"," ","n","e","w"," ","f","a","c","i","l","i","t","i","e","s",".",".",".">>,
        sentiment |-> "positive"],
       [title |-> <<"A","n","a","l","y","s","t","s"," ","u","p","g","r","a","d","e"," ">> \o s \o <<" ","p","r","i","c","e"," ","t","a","r","g","e","t">>,
        source |-> "Reuters",
        snippet |-> <<"M","u","l","t","i","p","l","e"," ","a","n","a","l","y","s","t","s"," ","r","a","i","s","e"," ","p","r","i","c","e"," ","t","a","r","g","e","t","s"," ","f","o","l","l","o","w","i","n","g"," ","s","t","r","o","n","g"," ","e","a","r","n","i","n","g","s",".",".",".">>,
        sentiment |-> "positive"],
       [title |-> s \o <<" ","f","a","c","e","s"," ","r","e","g","u","l","a","t","o","r","y"," ","s","c","r","u","t","i","n","y">>,
        source |-> "WSJ",
        snippet |-> <<"R","e","g","u","l","a","t","o","r","y"," ","b","o","d","i","e","s"," ","a","n","n","o","u","n","c","e"," ","i","n","v","e","s","t","i","g","a","t","i","o","n"," ","i","n","t","o"," ","c","o","m","p","a","n","y"," ","p","r","a","c","t","i","c","e","s",".",".",".">>,
        sentiment |-> "negative"],
       [title |-> s \o <<" ","q","u","a","r","t","e","r","l","y"," ","e","a","r","n","i","n","g","s"," ","r","e","p","o","r","t">>,
        source |-> "Yahoo Finance",
        snippet |-> <<"C","o","m","p","a","n","y"," ","r","e","p","o","r","t","s"," ","m","i","x","e","d"," ","r","e","s","u","l","t","s"," ","i","n"," ","l","a","t","e","s","t"," ","q","u","a","r","t","e","r","l","y"," ","e","a","r","n","i","n","g","s",".",".",".">>,
        sentiment |-> "neutral"] >>

\* articles.filter(a => a.sentiment === label).length
countOf(arts, label) ==
    Cardinality({i \in DOMAIN arts : arts[i].sentiment = label})

\* mutant: a label that ties for the lead wins, positive first
analyzeSentimentTieUp(arts) ==
    LET positiveCount == countOf(arts, "positive")
        negativeCount == countOf(arts, "negative")
        neutralCount == countOf(arts, "neutral")
    IN  [articles |-> arts,
         overallSentiment |->
            IF positiveCount >= negativeCount /\ positiveCount >= neutralCount
            THEN "positive"
            ELSE IF negativeCount >= positiveCount /\ negativeCount >= neutralCount
            THEN "negative"
            ELSE "neutral",
         positiveCount |-> positiveCount,
         negativeCount |-> negativeCount,
         neutralCount |-> neutralCount,
         sources |-> {arts[i].source : i \in DOMAIN arts}]

\* lines 180-200: analyzeSentiment(articles) of the news fetcher
analyzeSentiment(arts) ==
    LET positiveCount == countOf(arts, "positive")
        negativeCount == countOf(arts, "negative")
        neutralCount == countOf(arts, "neutral")
    IN  [articles |-> arts,
         overallSentiment |->
            IF positiveCount > negativeCount /\ positiveCount > neutralCount
            THEN "positive"
            ELSE IF negativeCount > positiveCount /\ negativeCount > neutralCount
            THEN "negative"
            ELSE "neutral",
         positiveCount |-> positiveCount,
         negativeCount |-> negativeCount,
         neutralCount |-> neutralCount,
         sources |-> {arts[i].source : i \in DOMAIN arts}]

\* lines 138-175
getMockNewsData(s) == analyzeSentiment(mockArticles(s))

\* mutant: an empty answer of the manager is passed on as it is
fetchFromMultipleSourcesBare(s, m) ==
    IF m.kind = "threw" THEN getMockNewsData(s).articles
    ELSE m.result.articles

\* lines 81-107: fetchFromMultipleSources, given how the manager's call settled
fetchFromMultipleSources(s, m) ==
    IF m.kind = "threw" THEN getMockNewsData(s).articles
    ELSE IF Len(m.result.articles) = 0 THEN getMockNewsData(s).articles
    ELSE m.result.articles

\* lines 112-133: articles.map(...) throws on an element that is no object
mapThrows(arts) == \E i \in DOMAIN arts : arts[i] = Null

\* lines 112-133: analyzeSentimentForArticles
analyzeSentimentForArticles(arts) ==
    [i \in DOMAIN arts |-> withSentiment(arts[i])]

\* mutant: a failure of the Reddit call is passed on to the caller
settleWithRedditStrict(arts, r) ==
    IF r.kind = "threw" THEN [rejected |-> TRUE]
    ELSE [f \in {"articles", "overallSentiment", "positiveCount", "negativeCount",
                 "neutralCount", "sources", "redditSentiment"} |->
            IF f = "redditSentiment"
            THEN IF r.data.mentionCount > 0
                 THEN Some([sentiment |-> r.data.sentiment,
                            mentionCount |-> r.data.mentionCount,
                            avgScore |-> r.data.avgScore,
                            weight |-> 25])
                 ELSE Undefined
            ELSE analyzeSentiment(arts)[f]]

\* lines 49-70: the Reddit answer r is folded into the analysis of arts
settleWithReddit(arts, r) ==
    LET redditSentiment ==
            IF r.kind = "data" /\ r.data.mentionCount > 0
            THEN Some([sentiment |-> r.data.sentiment,
                       mentionCount |-> r.data.mentionCount,
                       avgScore |-> r.data.avgScore,
                       weight |-> 25])
            ELSE Undefined
        a == analyzeSentiment(arts)
    IN  [f \in (DOMAIN a) \cup {"redditSentiment"} |->
            IF f = "redditSentiment" THEN redditSentiment ELSE a[f]]

(* What the surroundings of fetchStockNews can do *)

Symbols == {<<"N","V","D","A">>, <<"G","A","I","N">>}

\* articles a provider can answer with
ProviderArticles ==
    { [title |-> <<"N","V","D","A"," ","s","u","r","g","e","s"," ","o","n"," ","e","a","r","n","i","n","g","s"," ","b","e","a","t">>, source |-> "Reuters",
       snippet |-> <<>>],
      [title |-> <<"C","h","i","p","m","a","k","e","r"," ","s","h","a","r","e","s"," ","f","a","l","l">>, source |-> "CNBC",
       snippet |-> <<"A","n","a","l","y","s","t","s"," ","s","e","e"," ","r","i","s","k">>],
      [title |-> <<"M","a","r","k","e","t","s"," ","o","p","e","n">>, source |-> "Reuters",
       snippet |-> <<>>] }

\* the non-empty article lists a provider can answer with
ProviderLists ==
    UNION {[1..n -> ProviderArticles] : n \in 1..MaxArticles} \cup {<<Null>>}

\* how newsAPIManager.fetchNewsWithFallback (with getCompanyName before it)
\* can settle: the manager's two kinds of result, or a throw in the try block
ManagerAnswers ==
    {[kind |-> "result",
      result |-> successResult(l, InitialStatus[p], p # apis[1])] :
        l \in ProviderLists, p \in Providers}
    \cup {[kind |-> "result", result |-> noneResult], [kind |-> "threw"]}

\* how getStockSentimentFromReddit(symbol, 100) can settle
RedditAnswers ==
    {[kind |-> "data",
      data |-> [sentiment |-> s, mentionCount |-> n, avgScore |-> a]] :
        s \in {"bullish", "bearish", "neutral"}, n \in {1, 47}, a \in {0, 1234}}
    \cup {[kind |-> "data",
           data |-> [sentiment |-> "neutral", mentionCount |-> 0, avgScore |-> 0]],
          [kind |-> "threw"]}

\* line 39: the call is made; fetchFromMultipleSources is awaited
CallFetchStockNews(s) ==
    /\ nPc = "idle"
    /\ s \in Symbols
    /\ symbol' = s
    /\ nPc' = "sources"
    /\ UNCHANGED <<newsArticles, articlesWithSentiment, analysis,
                   managerGave, redditGave>>
    /\ UNCHANGED outsideNews

\* lines 44-52: fetchFromMultipleSources settles, the articles are classified
\* and getStockSentimentFromReddit is awaited; a throw of the classification
\* is caught at lines 72-75
SourcesSettle(m) ==
    /\ nPc = "sources"
    /\ m \in ManagerAnswers
    /\ managerGave' = m
    /\ LET arts == fetchFromMultipleSources(symbol, m)
       IN  /\ newsArticles' = arts
           /\ IF mapThrows(arts)
              THEN /\ analysis' = Some(getMockNewsData(symbol))
                   /\ nPc' = "done"
                   /\ UNCHANGED articlesWithSentiment
              ELSE /\ articlesWithSentiment' = analyzeSentimentForArticles(arts)
                   /\ nPc' = "reddit"
                   /\ UNCHANGED analysis
    /\ UNCHANGED <<symbol, redditGave>>
    /\ UNCHANGED outsideNews

\* lines 52-70: getStockSentimentFromReddit settles and the analysis is returned
RedditSettles(r) ==
    /\ nPc = "reddit"
    /\ r \in RedditAnswers
    /\ redditGave' = r
    /\ analysis' = Some(settleWithReddit(articlesWithSentiment, r))
    /\ nPc' = "done"
    /\ UNCHANGED <<symbol, newsArticles, articlesWithSentiment, managerGave>>
    /\ UNCHANGED outsideNews

NewsNext ==
    \/ \E s \in Symbols : CallFetchStockNews(s)
    \/ \E m \in ManagerAnswers : SourcesSettle(m)
    \/ \E r \in RedditAnswers : RedditSettles(r)

NewsSpec == Init /\ [][NewsNext]_newsVars

----------------------------------------------------------------------------
(* Vocabulary of the properties of fetchStockNews *)

\* the manager's call gave no article: an empty result, or a throw
ManagerGaveNothing ==
    \/ managerGave.kind = "threw"
    \/ managerGave.kind = "result" /\ managerGave.result.articles = <<>>

\* arts are the four articles of the static fallback set, in its order
IsFallbackSet(arts) ==
    /\ Len(arts) = 4
    /\ \A i \in 1..4 :
          /\ arts[i].title = mockArticles(symbol)[i].title
          /\ arts[i].snippet = mockArticles(symbol)[i].snippet
          /\ arts[i].source = mockArticles(symbol)[i].source

----------------------------------------------------------------------------
(* C11: fetchStockNews never rejects: once it has settled, it has resolved *)
(* with an analysis whose article list is non-empty; and when the manager  *)
(* gave no articles or threw, the articles of the analysis are the four    *)
(* articles of the static fallback set.                                    *)
C11_AlwaysArticles ==
    /\ nPc = "done" => analysis # {}
    /\ \A a \in analysis :
          /\ "articles" \in DOMAIN a
          /\ Len(a.articles) > 0
          /\ ManagerGaveNothing => IsFallbackSet(a.articles)

\* the manager returned its empty result and the analysis carries the fallback set
C11_Witness ==
    /\ nPc = "done"
    /\ managerGave.kind = "result"
    /\ managerGave.result = noneResult
    /\ \E a \in analysis : IsFallbackSet(a.articles) /\ redditGave.kind = "threw"

----------------------------------------------------------------------------
(***************************************************************************)
(* The classifiers on their own: an article and a post text are handed     *)
(* in, each classifier is applied once.                                    *)
(***************************************************************************)

\* the most phrases a text of the model is made of
MaxPhrases == 2

\* what the texts are made of: words with and without keywords of the four
\* lists, in either case
Phrases ==
    { <<"N","V","D","A">>, <<"s","u","r","g","e","s">>, <<"b","e","a","t">>, <<"P","r","o","f","i","t">>, <<"f","a","l","l","s">>,
      <<"s","c","a","n","d","a","l"," ","r","i","s","k">>, <<"p","u","t","s">>, <<"b","a","g","h","o","l","d","i","n","g">> }

\* the example of the specification
Headline == <<"N","V","D","A"," ","s","u","r","g","e","s"," ","o","n"," ","e","a","r","n","i","n","g","s"," ","b","e","a","t">>

\* the texts of at most n phrases, joined by a blank
RECURSIVE TextsOf(_)
TextsOf(n) ==
    IF n = 0 THEN {<<>>}
    ELSE LET shorter == TextsOf(n - 1)
         IN  shorter \cup
             {IF t = <<>> THEN w ELSE t \o <<" ">> \o w :
                 t \in shorter, w \in Phrases}

Texts == TextsOf(MaxPhrases) \cup {Headline}

Snippets == {<<>>, <<"R","e","c","o","r","d"," ","l","o","s","s">>}

\* an article and a post text are handed to the classifiers
ClassifierInit ==
    /\ managerAtRest
    /\ envAtRest
    /\ newsAtRest
    /\ routeAtRest
    /\ redditAtRest
    /\ sentimentAtRest
    /\ detectorAtRest
    /\ \E t \in Texts, s \in Snippets :
          /\ cArticle = [title |-> t, snippet |-> s]
          /\ cText = t
    /\ cNews = {}
    /\ cReddit = {}

\* lines 118-132: the map callback is applied to the article
ClassifyArticle ==
    /\ cNews = {}
    /\ cNews' = Some(withSentiment(cArticle))
    /\ UNCHANGED <<cArticle, cText, cReddit>>
    /\ UNCHANGED outsideClassifier

\* lines 407-428: analyzeSentiment is applied to the text
ClassifyPost ==
    /\ cReddit = {}
    /\ cReddit' = Some(redditAnalyzeSentiment(cText))
    /\ UNCHANGED <<cArticle, cText, cNews>>
    /\ UNCHANGED outsideClassifier

ClassifierNext == ClassifyArticle \/ ClassifyPost

ClassifierSpec == ClassifierInit /\ [][ClassifierNext]_clfVars

----------------------------------------------------------------------------
(* Vocabulary of the properties of the classifiers: keyword hits, spelled  *)
(* out on the text as it was handed in                                     *)

\* the same character, whatever its case
SameLetter(a, b) ==
    \/ a = b
    \/ \E i \in DOMAIN UpperCase : {a, b} = {UpperCase[i], LowerCase[i]}

\* keyword kw stands somewhere in text t, in whatever case
Occurs(kw, t) ==
    \E k \in 0..(Len(t) - Len(kw)) :
       \A j \in 1..Len(kw) : SameLetter(t[k + j], kw[j])

\* the entries of the list keywords that stand in t
HitsIn(keywords, t) == {i \in DOMAIN keywords : Occurs(keywords[i], t)}

\* the hit count: an entry listed twice counts twice
Hits(keywords, t) == Cardinality(HitsIn(keywords, t))

\* the text of the article handed in, as written
ArticleAsWritten == cArticle.title \o <<" ">> \o cArticle.snippet

\* label is the one the rule "more hits win, a tie is neutral" gives
ByMajority(label, up, down, ups, downs) ==
    /\ label = up <=> ups > downs
    /\ label = down <=> downs > ups
    /\ label = "neutral" <=> ups = downs

----------------------------------------------------------------------------
(* C12: the news classifier labels an article positive iff its text has    *)
(* more positive-keyword hits than negative-keyword hits, negative iff it  *)
(* has more negative hits, neutral iff the counts are equal; so a text     *)
(* with hits of one list only gets that list's label and a text without    *)
(* hits (the empty one among them) is neutral.  The Reddit classifier      *)
(* follows the same rule with bullish, bearish and neutral over its lists. *)
C12_MajorityOfHits ==
    /\ \A a \in cNews :
          LET ups == Hits(positiveKeywords, ArticleAsWritten)
              downs == Hits(negativeKeywords, ArticleAsWritten)
          IN  /\ ByMajority(a.sentiment, "positive", "negative", ups, downs)
              /\ ups > 0 /\ downs = 0 => a.sentiment = "positive"
              /\ downs > 0 /\ ups = 0 => a.sentiment = "negative"
              /\ cArticle.title = <<>> /\ cArticle.snippet = <<>>
                    => a.sentiment = "neutral"
    /\ \A label \in cReddit :
          LET ups == Hits(bullishKeywords, cText)
              downs == Hits(bearishKeywords, cText)
          IN  /\ ByMajority(label, "bullish", "bearish", ups, downs)
              /\ ups > 0 /\ downs = 0 => label = "bullish"
              /\ downs > 0 /\ ups = 0 => label = "bearish"
              /\ cText = <<>> => label = "neutral"

\* both classifiers were applied to "Profit", a text with a hit of the positive
\* list and of the bullish list only
C12_Witness ==
    /\ cArticle = [title |-> <<"P","r","o","f","i","t">>, snippet |-> <<>>]
    /\ \E a \in cNews : a.sentiment = "positive"
    /\ cReddit = {"bullish"}

----------------------------------------------------------------------------
\* the example headline was classified, as a title without a snippet
HeadlineClassified ==
    /\ cArticle = [title |-> Headline, snippet |-> <<>>]
    /\ cNews # {}

(* C13 as stated: the headline "NVDA surges on earnings beat" is labelled  *)
(* positive with exactly 2 positive keyword hits and 0 negative hits.      *)
C13_AsStated ==
    HeadlineClassified =>
       /\ \A a \in cNews : a.sentiment = "positive"
       /\ score(positiveKeywords, articleText(cArticle)) = 2
       /\ score(negativeKeywords, articleText(cArticle)) = 0

(* C13: the headline "NVDA surges on earnings beat" is labelled positive   *)
(* with exactly 3 positive keyword hits ("surge", "beat" and the listed    *)
(* phrase "earnings beat") and 0 negative hits.                            *)
C13_HeadlineThreeHits ==
    HeadlineClassified =>
       /\ \A a \in cNews : a.sentiment = "positive"
       /\ score(positiveKeywords, articleText(cArticle)) = 3
       /\ {positiveKeywords[i] : i \in HitsIn(positiveKeywords, ArticleAsWritten)}
             = {<<"s","u","r","g","e">>, <<"b","e","a","t">>, <<"e","a","r","n","i","n","g","s"," ","b","e","a","t">>}
       /\ score(negativeKeywords, articleText(cArticle)) = 0

\* the headline was classified, and positive
C13_Witness ==
    /\ HeadlineClassified
    /\ \E a \in cNews : a.sentiment = "positive"

----------------------------------------------------------------------------
\* the number of fetch() invocations call c has made on provider p
IssuedBy(c, p) == Cardinality({i \in DOMAIN fetched[c] : fetched[c][i] = p})

(* C14: each provider's requestCount is the number of fetch() invocations  *)
(* the manager has made on it since construction.  Stated where the record *)
(* of all of them is at hand: once the first call ever made has settled,   *)
(* whatever came of each of its fetches.                                   *)
C14_RequestCountIsFetchCount ==
    \A c \in Calls :
        (callsMade = 1 /\ pc[c] = "done") =>
            \A p \in Providers : apiStatus[p].requestCount = IssuedBy(c, p)

----------------------------------------------------------------------------
\* a status as reset() leaves it
AsResetLeaves(status) ==
    status.available /\ status.rateLimitResetTime = {} /\ status.lastError = {}

\* in this step reset() runs (no call moves, the statuses change)
ResetNow == apiStatus' # apiStatus /\ pc' = pc

(* C15: reset() leaves every provider available, without rateLimitResetTime *)
(* and without lastError, and leaves its requestCount and lastRequestTime   *)
(* as they were; and a call that finds newsapi as reset() leaves it         *)
(* attempts newsapi first, however recently newsapi was rate limited.       *)
C15_ResetClearsCooldown ==
    [][/\ ResetNow =>
             \A p \in Providers :
                /\ apiStatus'[p].available = TRUE
                /\ apiStatus'[p].rateLimitResetTime = {}
                /\ apiStatus'[p].lastError = {}
                /\ apiStatus'[p].requestCount = apiStatus[p].requestCount
                /\ apiStatus'[p].lastRequestTime = apiStatus[p].lastRequestTime
                /\ apiStatus'[p].name = apiStatus[p].name
       /\ \A c \in Calls :
             (/\ pc[c] = "loop" /\ idx[c] = 1
              /\ AsResetLeaves(apiStatus["newsapi"])
              /\ CallMoves(c)) =>
                 /\ fetched[c] = <<>>
                 /\ AttemptsNow(c, "newsapi")]_vars

\* the latest call saw newsapi throw a rate-limit error less than an hour
\* ago, and reset() has run since: the cooldown is gone
C15_Witness ==
    \E c \in Calls :
        /\ pc[c] = "done"
        /\ outcome[c]["newsapi"].kind = "threw"
        /\ isRateLimitError(outcome[c]["newsapi"].error)
        /\ \E t \in lastAttempt["newsapi"] : now < t + RATE_LIMIT_COOLDOWN
        /\ AsResetLeaves(apiStatus["newsapi"])

----------------------------------------------------------------------------
(* C16: a provider whose API key is missing from the environment is never  *)
(* attempted by fetchNewsWithFallback (its fetch() is never invoked), and  *)
(* no call rejects.                                                        *)
C16_NoKeyNeverAttempted ==
    /\ \A p \in Providers : ~apiKey[p] => lastAttempt[p] = Undefined
    /\ \A c \in Calls : result[c].state # "rejected"

----------------------------------------------------------------------------
\* the number of classified articles that carry the label
Labelled(label) ==
    Cardinality({i \in DOMAIN articlesWithSentiment :
                    articlesWithSentiment[i].sentiment = label})

(* C17: once the Reddit call has settled, by throwing or with data,        *)
(* fetchStockNews has resolved; the articles, the three counts and the     *)
(* overall sentiment of its analysis are those of the classified articles  *)
(* alone; and redditSentiment is present iff the Reddit call gave data     *)
(* with mentionCount > 0, in which case it copies that data with weight 25.*)
C17_RedditIsOptional ==
    redditGave.kind # "none" =>
       /\ analysis # {}
       /\ \A a \in analysis :
             /\ "articles" \in DOMAIN a
             /\ a.articles = articlesWithSentiment
             /\ a.positiveCount = Labelled("positive")
             /\ a.negativeCount = Labelled("negative")
             /\ a.neutralCount = Labelled("neutral")
             /\ a.overallSentiment = "positive" <=>
                   /\ Labelled("positive") > Labelled("negative")
                   /\ Labelled("positive") > Labelled("neutral")
             /\ a.overallSentiment = "negative" <=>
                   /\ Labelled("negative") > Labelled("positive")
                   /\ Labelled("negative") > Labelled("neutral")
             /\ a.overallSentiment \in {"positive", "negative", "neutral"}
             /\ a.redditSentiment # {} <=>
                   /\ redditGave.kind = "data"
                   /\ redditGave.data.mentionCount > 0
             /\ \A r \in a.redditSentiment :
                   /\ r.weight = 25
                   /\ r.sentiment = redditGave.data.sentiment
                   /\ r.mentionCount = redditGave.data.mentionCount
                   /\ r.avgScore = redditGave.data.avgScore

\* the Reddit call threw and fetchStockNews resolved with the analysis of the
\* provider's articles, without redditSentiment
C17_Witness ==
    /\ nPc = "done"
    /\ redditGave.kind = "threw"
    /\ managerGave.kind = "result"
    /\ managerGave.result.articles # <<>>
    /\ \E a \in analysis :
          /\ a.articles = articlesWithSentiment
          /\ a.redditSentiment = {}
          /\ a.positiveCount = 1

----------------------------------------------------------------------------
(***************************************************************************)
(* GET /api/historical-price (src/app/events/page.tsx holds two versions   *)
(* of the handler: lines 14-58 and lines 68-127).  A query parameter is {} *)
(* when searchParams.get gives null and {s} when it gives the string s.    *)
(***************************************************************************)

\* mutant: only null counts as missing
isMissingNullOnly(param) == param = {}

\* !symbol, !dateParam: null or the empty string
isMissing(param) == param = {} \/ param = {<<>>}

Digits == <<"0","1","2","3","4","5","6","7","8","9">>

isDigit(ch) == \E i \in DOMAIN Digits : Digits[i] = ch

\* the value of a decimal numeral
RECURSIVE numberOf(_)
numberOf(s) ==
    IF s = <<>> THEN 0
    ELSE 10 * numberOf(SubSeq(s, 1, Len(s) - 1))
         + (CHOOSE i \in DOMAIN Digits : Digits[i] = s[Len(s)]) - 1

\* new Date(s).getTime() for the date form YYYY-MM-DD and for strings that are
\* no date in any form: {} stands for NaN, {<<y, m, d>>} for the day
dateOf(s) ==
    IF /\ Len(s) = 10
       /\ s[5] = "-" /\ s[8] = "-"
       /\ \A i \in {1, 2, 3, 4, 6, 7, 9, 10} : isDigit(s[i])
       /\ numberOf(SubSeq(s, 6, 7)) \in 1..12
       /\ numberOf(SubSeq(s, 9, 10)) \in 1..31
    THEN {<<numberOf(SubSeq(s, 1, 4)), numberOf(SubSeq(s, 6, 7)),
            numberOf(SubSeq(s, 9, 10))>>}
    ELSE {}

\* NextResponse.json(body, { status })
json(body, status) == [status |-> status, body |-> body]

\* the handler up to its await: the response it returns there, {} if it goes on
\* to fetchHistoricalPrice (h = 1: lines 16-33, h = 2: lines 70-95)
GETBeforeAwait(h, req) ==
    IF isMissing(req.symbol)
    THEN Some(json([error |-> IF h = 1 THEN "Missing symbol parameter"
                              ELSE "Missing required parameter: symbol"], 400))
    ELSE IF isMissing(req.date)
    THEN Some(json([error |-> IF h = 1 THEN "Missing date parameter"
                              ELSE "Missing required parameter: date"], 400))
    ELSE IF \A d \in req.date : dateOf(d) = {}
    THEN Some(json([error |-> IF h = 1 THEN "Invalid date format"
                              ELSE "Invalid date format. Use YYYY-MM-DD"], 400))
    ELSE {}

\* the handler after its await, given how fetchHistoricalPrice settled
\* (h = 1: lines 36-57, h = 2: lines 98-126)
GETAfterAwait(h, req, ans) ==
    LET sym == CHOOSE x \in req.symbol : TRUE
        dateStr == CHOOSE x \in req.date : TRUE
    IN  IF ans.kind = "threw"
        THEN IF h = 1
             THEN json([error |-> "Internal server error",
                        message |-> IF ans.isError THEN ans.message
                                    ELSE "Unknown error"], 500)
             ELSE json([error |-> "Internal server error"], 500)
        ELSE IF ans.kind = "null"
        THEN IF h = 1
             THEN json([error |-> "No historical data available for this symbol and date",
                        symbol |-> sym, date |-> dateStr], 404)
             ELSE json([error |-> <<"No historical price data available for",
                                    sym, "on", dateStr>>,
                        symbol |-> sym, date |-> dateStr, price |-> {}], 404)
        ELSE IF h = 1
             THEN json([price |-> Some(ans.price), symbol |-> sym,
                        date |-> dateStr], 200)
             ELSE json([symbol |-> sym, date |-> dateStr, price |-> Some(ans.price),
                        source |-> "finnhub", cached |-> FALSE], 200)

(* What the surroundings of the handler can do *)

\* date parameters that are a day, and date parameters that are not
ValidDates == {<<"2","0","2","4","-","0","1","-","1","5">>, <<"2","0","2","3","-","1","2","-","3","1">>, <<"1","9","9","9","-","0","6","-","0","1">>}
InvalidDates == {<<"2","0","2","4","-","1","3","-","0","1">>, <<"2","0","2","4","-","0","0","-","1","0">>, <<"y","e","s","t","e","r","d","a","y">>}

\* the query of a request: each parameter absent, empty or given
Requests ==
    [symbol : {{}, {<<>>}, {<<"A","A","P","L">>}, {<<"N","V","D","A">>}},
     date : {{}, {<<>>}} \cup {{d} : d \in ValidDates \cup InvalidDates}]

\* how fetchHistoricalPrice can settle: a price, null, or a throw
PriceAnswers ==
    {[kind |-> "price", price |-> n] : n \in {0, 18592}}
    \cup {[kind |-> "null"],
          [kind |-> "threw", isError |-> TRUE, message |-> "fetch failed"],
          [kind |-> "threw", isError |-> FALSE, message |-> "timeout"]}

\* a request has arrived at one of the two handlers
RouteInit ==
    /\ managerAtRest
    /\ envAtRest
    /\ clfAtRest
    /\ newsAtRest
    /\ redditAtRest
    /\ sentimentAtRest
    /\ detectorAtRest
    /\ rtPc = "arrived"
    /\ handler \in {1, 2}
    /\ request \in Requests
    /\ response = {}
    /\ priceGave = [kind |-> "none"]

\* the handler runs up to its await, or returns 400 before it
GETStarts ==
    /\ rtPc = "arrived"
    /\ LET early == GETBeforeAwait(handler, request)
       IN  IF early # {}
           THEN response' = early /\ rtPc' = "responded"
           ELSE response' = response /\ rtPc' = "awaiting"
    /\ UNCHANGED <<handler, request, priceGave>>
    /\ UNCHANGED outsideRoute

\* fetchHistoricalPrice settles and the handler returns
PriceSettles(ans) ==
    /\ rtPc = "awaiting"
    /\ ans \in PriceAnswers
    /\ priceGave' = ans
    /\ response' = Some(GETAfterAwait(handler, request, ans))
    /\ rtPc' = "responded"
    /\ UNCHANGED <<handler, request>>
    /\ UNCHANGED outsideRoute

RouteNext ==
    \/ GETStarts
    \/ \E ans \in PriceAnswers : PriceSettles(ans)

RouteSpec == RouteInit /\ [][RouteNext]_routeVars

----------------------------------------------------------------------------
\* the parameter is absent or empty (said of the request as it arrived)
Absent(param) == \A s \in param : Len(s) = 0

\* the request passes the handler's validation
WellFormed ==
    /\ ~Absent(request.symbol)
    /\ ~Absent(request.date)
    /\ request.date \subseteq ValidDates

(* C18 as stated: every response is either a success body with price,      *)
(* symbol and date, or a 404 response with an error body.                   *)
C18_AsStated ==
    \A r \in response :
       \/ r.status = 200 /\ {"price", "symbol", "date"} \subseteq DOMAIN r.body
       \/ r.status = 404 /\ "error" \in DOMAIN r.body

(* C18: every response is one of four: 400 with an error body when symbol  *)
(* or date is missing or empty or the date is no date; otherwise 500 with  *)
(* an error body when the price fetch throws, 404 with an error body when  *)
(* it gives null, and 200 with the price, the symbol and the date as they  *)
(* were given when it gives a price.                                        *)
C18_FourResponses ==
    /\ rtPc = "responded" => response # {}
    /\ \A r \in response :
          /\ r.status = 400 <=> ~WellFormed
          /\ r.status = 500 <=> WellFormed /\ priceGave.kind = "threw"
          /\ r.status = 404 <=> WellFormed /\ priceGave.kind = "null"
          /\ r.status = 200 <=> WellFormed /\ priceGave.kind = "price"
          /\ r.status \in {200, 400, 404, 500}
          /\ r.status # 200 => "error" \in DOMAIN r.body
          /\ r.status = 200 =>
                /\ {"price", "symbol", "date"} \subseteq DOMAIN r.body
                /\ "error" \notin DOMAIN r.body
                /\ r.body.price = {priceGave.price}
                /\ {r.body.symbol} = request.symbol
                /\ {r.body.date} = request.date

\* a request without a symbol was answered with 400
C18_Witness ==
    /\ rtPc = "responded"
    /\ request.symbol = {<<>>}
    /\ request.date \subseteq ValidDates /\ request.date # {}
    /\ \E r \in response : r.status = 400

----------------------------------------------------------------------------
(***************************************************************************)
(* scrapeWallStreetBets (src/lib/news/news-fetcher.ts, lines 305-334),     *)
(* which getStockSentimentFromReddit calls first thing (line 529).  Of the *)
(* posts collected the loop looks only at their number.                    *)
(***************************************************************************)

\* the most calls of scrapeWallStreetBets made one after the other
MaxScrapes == 2

\* line 311: const batchSize = 100
batchSize == 100

\* line 323: setTimeout(resolve, 2000)
requestDelay == 2000

\* mutant: one more iteration than the batches needed
iterationsOneMore(l) == l \div batchSize + 1

\* line 315: Math.ceil(limit / batchSize), for a limit that is a natural number
iterations(l) == (l + batchSize - 1) \div batchSize

\* line 327: posts.slice(0, limit).length, for a limit that is a natural number
sliceLength(n, l) == IF n < l THEN n ELSE l

\* line 320: !after
noCursor(cursor) == cursor = {} \/ cursor = {""}

\* lines 327-329: the analysis returned, of which totalPosts is kept
resolvedWith(n, l) == [state |-> "resolved", totalPosts |-> sliceLength(n, l)]

(* What the surroundings of the scraper can do *)

\* the limits asked for
Limits == {0, 1, 100, 150, 250}

\* the number of posts a response of Reddit carries, and its cursor
BatchCounts == {0, 40, 100}
Cursors == {{}, {""}, {"t3_1abcde"}}

\* the time a request takes, the time between two calls, the lateness of a timer
Durations == {0, 350}
Pauses == {0, requestDelay}
Lateness == {0, 1}

\* line 305: the call is made, d ms after whatever happened last; the loop is
\* entered and, unless the limit asks for no batch, the first request is sent
scrapeWallStreetBets(l, d) ==
    /\ rdPc \in {"idle", "done"}
    /\ scrapes < MaxScrapes
    /\ l \in Limits
    /\ d \in Pauses
    /\ scrapes' = scrapes + 1
    /\ clock' = clock + d
    /\ limit' = l
    /\ loopI' = 0
    /\ posts' = 0
    /\ after' = {}
    /\ wake' = 0
    /\ IF 0 < iterations(l)
       THEN /\ rdPc' = "fetching"
            /\ batches' = 1
            /\ lastRequestAt' = Some(clock')
            /\ rdResult' = {}
       ELSE /\ rdPc' = "done"
            /\ batches' = 0
            /\ rdResult' = Some(resolvedWith(0, l))
            /\ UNCHANGED lastRequestAt
    /\ UNCHANGED outsideReddit

\* lines 316-323: fetchRedditBatch resolves after d ms with n posts and a cursor
BatchArrives(n, cursor, d) ==
    /\ rdPc = "fetching"
    /\ n \in BatchCounts
    /\ cursor \in Cursors
    /\ d \in Durations
    /\ clock' = clock + d
    /\ posts' = posts + n
    /\ after' = cursor
    /\ IF noCursor(cursor) \/ posts + n >= limit
       THEN /\ rdPc' = "done"
            /\ rdResult' = Some(resolvedWith(posts + n, limit))
            /\ UNCHANGED wake
       ELSE /\ rdPc' = "sleeping"
            /\ wake' = clock + d + requestDelay
            /\ UNCHANGED rdResult
    /\ UNCHANGED <<limit, loopI, batches, lastRequestAt, scrapes>>
    /\ UNCHANGED outsideReddit

\* lines 351-353, 330-333: fetchRedditBatch throws after d ms; the catch block
\* logs and throws again
BatchFails(d) ==
    /\ rdPc = "fetching"
    /\ d \in Durations
    /\ clock' = clock + d
    /\ rdResult' = Some([state |-> "rejected"])
    /\ rdPc' = "done"
    /\ UNCHANGED <<limit, loopI, posts, after, wake, batches, lastRequestAt, scrapes>>
    /\ UNCHANGED outsideReddit

\* lines 323, 315: the timer fires (late ms after it is due), i++, and the loop
\* sends the next request or ends
SleepEnds(late) ==
    /\ rdPc = "sleeping"
    /\ late \in Lateness
    /\ clock' = wake + late
    /\ loopI' = loopI + 1
    /\ IF loopI + 1 < iterations(limit)
       THEN /\ rdPc' = "fetching"
            /\ batches' = batches + 1
            /\ lastRequestAt' = Some(wake + late)
            /\ UNCHANGED rdResult
       ELSE /\ rdPc' = "done"
            /\ rdResult' = Some(resolvedWith(posts, limit))
            /\ UNCHANGED <<batches, lastRequestAt>>
    /\ UNCHANGED <<limit, posts, after, wake, scrapes>>
    /\ UNCHANGED outsideReddit

RedditNext ==
    \/ \E l \in Limits, d \in Pauses : scrapeWallStreetBets(l, d)
    \/ \E n \in BatchCounts, cursor \in Cursors, d \in Durations :
          BatchArrives(n, cursor, d)
    \/ \E d \in Durations : BatchFails(d)
    \/ \E late \in Lateness : SleepEnds(late)

RedditSpec == Init /\ [][RedditNext]_redditVars

----------------------------------------------------------------------------
(* C19: a call of scrapeWallStreetBets sends at most ceil(limit / 100)     *)
(* requests; it goes on after a response only if that response carried a   *)
(* cursor and fewer than limit posts are collected; and the analysis it    *)
(* returns has totalPosts <= limit.                                        *)
C19_BatchesBounded ==
    /\ batches > 0 => (batches - 1) * 100 < limit
    /\ (rdPc = "sleeping" \/ (rdPc = "fetching" /\ batches > 1)) =>
          /\ after # {} /\ after # {""}
          /\ posts < limit
    /\ \A r \in rdResult : r.state = "resolved" => r.totalPosts <= limit

\* a call with limit 150 collected 200 posts in its two batches and returned 150
C19_Witness ==
    /\ rdPc = "done"
    /\ limit = 150
    /\ batches = 2
    /\ posts = 200
    /\ rdResult = {[state |-> "resolved", totalPosts |-> 150]}

----------------------------------------------------------------------------
\* in this step a request is sent to Reddit
RequestNow == batches' = batches + 1 \/ (scrapes' # scrapes /\ batches' = 1)

(* C20: whenever a request is sent to Reddit, the request sent before it,  *)
(* by this call of scrapeWallStreetBets or by an earlier one, was sent at   *)
(* least 2 seconds before.                                                  *)
C20_TwoSecondsApart ==
    [][RequestNow => \A t \in lastRequestAt : clock' >= t + 2000]_redditVars

----------------------------------------------------------------------------
(***************************************************************************)
(* getStockSentimentFromReddit (src/lib/news/news-fetcher.ts, lines        *)
(* 520-552) over the analysis analyzeRedditPosts (lines 433-492) makes of  *)
(* the scraped posts.  A post carries the stockMentions fetchRedditBatch   *)
(* gave it: an array made from a Set, so without repetition.  avgScore is  *)
(* kept as the exact fraction num / den; rounding is not modelled.         *)
(***************************************************************************)

MaxPosts == 6

\* lines 450-456: the entry a ticker gets when it is first seen
newStats ==
    [count |-> 0, bullishCount |-> 0, bearishCount |-> 0,
     sentiment |-> "neutral", avgScore |-> [num |-> 0, den |-> 1]]

\* Array.prototype.includes on an array of tickers
includesTicker(tickers, ticker) == \E i \in DOMAIN tickers : tickers[i] = ticker

\* line 444: post.title + ' ' + post.selftext
postText(p) == p.title \o <<" ">> \o p.selftext

\* lines 459-464: one mention of the ticker by a post of score sc and label lab
trackMention(stats, sc, lab) ==
    [stats EXCEPT
        !.count = @ + 1,
        !.avgScore = [num |-> @.num * stats.count + sc * @.den,
                      den |-> @.den * (stats.count + 1)],
        !.bullishCount = IF lab = "bullish" THEN @ + 1 ELSE @,
        !.bearishCount = IF lab = "bearish" THEN @ + 1 ELSE @]

\* lines 444-445: the post with its sentiment
withPostSentiment(p) ==
    [id |-> p.id, title |-> p.title, selftext |-> p.selftext,
     score |-> p.score, stockMentions |-> p.stockMentions,
     sentiment |-> redditAnalyzeSentiment(postText(p))]

\* lines 448-465: the forEach, as far as the entry of one ticker goes, over
\* posts that have their sentiment; the entry is absent ({}) until a post
\* mentions the ticker
RECURSIVE statsOver(_, _)
statsOver(ps, ticker) ==
    IF ps = <<>> THEN {}
    ELSE LET before == statsOver(SubSeq(ps, 1, Len(ps) - 1), ticker)
             p == ps[Len(ps)]
         IN  IF includesTicker(p.stockMentions, ticker)
             THEN LET stats == IF before = {} THEN newStats
                               ELSE CHOOSE st \in before : TRUE
                  IN  {trackMention(stats, p.score, p.sentiment)}
             ELSE before

\* lines 469-477: the overall sentiment of an entry
overallOf(stats) ==
    [stats EXCEPT !.sentiment =
        IF stats.bullishCount > stats.bearishCount THEN "bullish"
        ELSE IF stats.bearishCount > stats.bullishCount THEN "bearish"
        ELSE "neutral"]

\* the tickers posts mention and callers ask for
Tickers == {<<"N","V","D","A">>, <<"G","M","E">>}

\* lines 433-492: analyzeRedditPosts; stockMentions[ticker] is {} for a
\* ticker the Map has no entry for
analyzeRedditPosts(ps) ==
    LET labelled == [i \in DOMAIN ps |-> withPostSentiment(ps[i])]
    IN  [posts |-> labelled,
         totalPosts |-> Len(ps),
         stockMentions |-> [ticker \in Tickers |->
                               {overallOf(st) : st \in statsOver(labelled, ticker)}]]

\* mutant: the filtered posts are left in the order they were scraped
sortByScoreNot(ps) == ps

\* line 543: sort((a, b) => b.score - a.score); the sort is stable
RECURSIVE sortByScore(_)
sortByScore(ps) ==
    IF ps = <<>> THEN <<>>
    ELSE LET sorted == sortByScore(SubSeq(ps, 1, Len(ps) - 1))
             p == ps[Len(ps)]
             k == Cardinality({i \in DOMAIN sorted : sorted[i].score >= p.score})
         IN  SubSeq(sorted, 1, k) \o <<p>> \o SubSeq(sorted, k + 1, Len(sorted))

\* Array.prototype.slice(0, n)
sliceFromStart(arr, n) == SubSeq(arr, 1, IF Len(arr) < n THEN Len(arr) ELSE n)

\* lines 530-551: what getStockSentimentFromReddit returns for an analysis
stockSentiment(an, sym) ==
    LET stats == an.stockMentions[sym]
    IN  IF stats = {}
        THEN [sentiment |-> "neutral", mentionCount |-> 0,
              avgScore |-> [num |-> 0, den |-> 1], topPosts |-> <<>>]
        ELSE LET st == CHOOSE x \in stats : TRUE
                 mentioning == SelectSeq(an.posts,
                                  LAMBDA p : includesTicker(p.stockMentions, sym))
             IN  [sentiment |-> st.sentiment,
                  mentionCount |-> st.count,
                  avgScore |-> st.avgScore,
                  topPosts |-> sliceFromStart(sortByScore(mentioning), 5)]

\* the posts Reddit may hold: title, score and the tickers found in the text
PostKinds ==
    { [title |-> <<"N","V","D","A"," ","m","o","o","n">>, selftext |-> <<>>, score |-> 30,
       stockMentions |-> <<<<"N","V","D","A">>>>],
      [title |-> <<"G","M","E"," ","N","V","D","A">>, selftext |-> <<"p","u","t","s">>, score |-> 10,
       stockMentions |-> <<<<"G","M","E">>, <<"N","V","D","A">>>>],
      [title |-> <<"G","M","E">>, selftext |-> <<>>, score |-> 50,
       stockMentions |-> <<<<"G","M","E">>>>] }

\* the lists of at most n posts; a post's id is its place in the listing
RECURSIVE PostListsOf(_)
PostListsOf(n) ==
    IF n = 0 THEN {<<>>}
    ELSE LET shorter == PostListsOf(n - 1)
         IN  shorter \cup
             {Append(ps, [id |-> Len(ps) + 1, title |-> k.title,
                          selftext |-> k.selftext, score |-> k.score,
                          stockMentions |-> k.stockMentions]) :
                 ps \in {l \in shorter : Len(l) = n - 1}, k \in PostKinds}

PostLists == PostListsOf(MaxPosts)

\* line 520: the call is made; scrapeWallStreetBets(limit, 'week') is awaited
CallGetStockSentiment(s) ==
    /\ gPc = "idle"
    /\ s \in Tickers
    /\ gSymbol' = s
    /\ gPc' = "scraping"
    /\ UNCHANGED <<gAnalysis, gResult>>
    /\ UNCHANGED outsideSentiment

\* lines 529-551: the scrape resolves with the analysis of some posts
ScrapeResolves ==
    /\ gPc = "scraping"
    /\ \E ps \in PostLists :
          LET an == analyzeRedditPosts(ps)
          IN  /\ gAnalysis' = Some(an)
              /\ gResult' = Some([state |-> "resolved",
                                  value |-> stockSentiment(an, gSymbol)])
    /\ gPc' = "done"
    /\ UNCHANGED gSymbol
    /\ UNCHANGED outsideSentiment

\* line 529: the scrape rejects, and so does the call
ScrapeRejects ==
    /\ gPc = "scraping"
    /\ gResult' = Some([state |-> "rejected"])
    /\ gPc' = "done"
    /\ UNCHANGED <<gSymbol, gAnalysis>>
    /\ UNCHANGED outsideSentiment

SentimentNext ==
    \/ \E s \in Tickers : CallGetStockSentiment(s)
    \/ ScrapeResolves
    \/ ScrapeRejects

SentimentSpec == Init /\ [][SentimentNext]_sentimentVars

----------------------------------------------------------------------------
(* Vocabulary of the properties of getStockSentimentFromReddit *)

\* the posts the scrape delivered
Scraped == UNION {{an.posts[i] : i \in DOMAIN an.posts} : an \in gAnalysis}

\* post p mentions the symbol asked for
MentionsSymbol(p) == \E j \in DOMAIN p.stockMentions : p.stockMentions[j] = gSymbol

Mentioning == {p \in Scraped : MentionsSymbol(p)}

\* the sentiment the analysis gave post p (line 445)
ReadsBullish(p) == p.sentiment = "bullish"
ReadsBearish(p) == p.sentiment = "bearish"

\* the value the call resolved with
SentimentReturned == {r.value : r \in {x \in gResult : x.state = "resolved"}}

(* C21: when no scraped post mentions the symbol the call returns neutral,  *)
(* mentionCount 0, avgScore 0 and no topPosts; otherwise mentionCount is    *)
(* the number of scraped posts that mention it, the sentiment follows the   *)
(* majority of bullish against bearish posts among them (a tie is neutral), *)
(* and topPosts are min(5, mentionCount) different mentioning posts, in     *)
(* non-increasing score order, none of them scoring less than a mentioning  *)
(* post left out.                                                           *)
C21_SentimentOfSymbol ==
    \A v \in SentimentReturned :
        LET ups == Cardinality({p \in Mentioning : ReadsBullish(p)})
            downs == Cardinality({p \in Mentioning : ReadsBearish(p)})
            top == {v.topPosts[k] : k \in DOMAIN v.topPosts}
        IN  IF Mentioning = {}
            THEN /\ v.sentiment = "neutral"
                 /\ v.mentionCount = 0
                 /\ v.avgScore.num = 0
                 /\ v.topPosts = <<>>
            ELSE /\ v.mentionCount = Cardinality(Mentioning)
                 /\ ByMajority(v.sentiment, "bullish", "bearish", ups, downs)
                 /\ Len(v.topPosts) = (IF v.mentionCount < 5 THEN v.mentionCount ELSE 5)
                 /\ Cardinality(top) = Len(v.topPosts)
                 /\ top \subseteq Mentioning
                 /\ \A k \in 1..(Len(v.topPosts) - 1) :
                       v.topPosts[k].score >= v.topPosts[k + 1].score
                 /\ \A p \in Mentioning \ top : \A q \in top : p.score <= q.score

\* six posts mention the symbol, bullish ones in the majority; five are
\* returned and the one left out scores least
C21_Witness ==
    \E v \in SentimentReturned :
        /\ Cardinality(Mentioning) = 6
        /\ v.sentiment = "bullish"
        /\ Len(v.topPosts) = 5
        /\ \E p \in Mentioning : p.score < v.topPosts[5].score

----------------------------------------------------------------------------
(***************************************************************************)
(* Overlapping calls.  fetchNewsWithFallback is async: a call is suspended *)
(* at the await of waitForRateLimit's timer and at the await of            *)
(* api.fetch(), and any other call's synchronous block, reset() or the     *)
(* passing of time may come in between.  Between two awaits a call runs    *)
(* alone (MayRun).  All calls share the one apiStatus map.                 *)
(***************************************************************************)

\* calls made in a behaviour of the overlapping specification
MaxOverlapping == 3

\* clock advances of the overlapping specification
MaxPauses == 1

\* values a fetch can throw while calls overlap: a rate-limit error and
\* an error that is none
OverlapThrown ==
    { [isError |-> TRUE, message |-> <<"4","2","9"," ">> \o RATE_LIMIT \o <<"!">>],
      [isError |-> TRUE, message |-> <<"R","A","T","E"," ","L","I","M","I","T">>] }

\* a whole cooldown passes while calls may be suspended
Pause == Advance({RATE_LIMIT_COOLDOWN}, MaxPauses)

\* a step of one of the overlapping calls, of which at most 'most' are made
OverlappingStep(c, most) ==
    \/ StartWithin(c, most)
    \/ LoopStep(c)
    \/ TimerFires(c)
    \/ \E articles \in ArticleLists(apis[IF inLoop(c) THEN idx[c] ELSE 1]) :
          FetchReturns(c, articles)
    \/ \E error \in OverlapThrown : FetchThrows(c, error)
    \/ ReturnNone(c)

\* three calls on two stacks: a call may be made while another is suspended,
\* and again after one has settled
ConcurrentNext ==
    \/ \E c \in Calls : OverlappingStep(c, MaxOverlapping)
    \/ Reset
    \/ Pause

ConcurrentSpec == Init /\ [][ConcurrentNext]_vars

\* the calls of Spec, overlapping
OverlapNext ==
    \/ \E c \in Calls : OverlappingStep(c, MaxCalls)
    \/ Reset
    \/ Pause

OverlapSpec == Init /\ [][OverlapNext]_vars

----------------------------------------------------------------------------
(* Vocabulary of the properties of overlapping calls *)

\* in this step call c skips provider p
SkipsNow(c, p) == outcome[c][p].kind = "none" /\ outcome'[c][p].kind = "skipped"

\* this step is a reset(): the status map changes and no call moves
ResetsNow ==
    /\ apiStatus' # apiStatus
    /\ pc' = pc /\ idx' = idx /\ fetched' = fetched /\ outcome' = outcome

----------------------------------------------------------------------------
(* C22 *)

\* C22: under any interleaving of overlapping calls a provider is skipped
\* only if its status has available = false and its cooldown has not
\* expired; a provider whose status shows available = true is never skipped.
C22_SkippedOnlyIfUnavailable ==
    [][\A c \in Calls : \A p \in Providers :
          SkipsNow(c, p) =>
              /\ getStatus[p].available = FALSE
              /\ InCooldown(p)]_vars

----------------------------------------------------------------------------
(* C23 *)

\* C23: under any interleaving of overlapping calls, no two fetches of the
\* same provider start less than 1000 ms apart.
C23_SpacingWhenOverlapping ==
    [][\A p \in Providers :
          (\E c \in Calls : FetchesNow(c, p)) =>
              \A earlier \in lastAttempt[p] : earlier + 1000 <= now']_vars

----------------------------------------------------------------------------
(* C24 *)

\* C24: once a provider has been marked rate-limited, its rateLimitResetTime
\* keeps the value that error set until the cooldown expires or reset() is
\* called, and no fetch of that provider starts inside the window, under any
\* interleaving of overlapping calls.
C24_OneCooldownWindow ==
    [][\A p \in Providers : \A r \in apiStatus[p].rateLimitResetTime :
          now' < r =>
              /\ ~ResetsNow => apiStatus'[p].rateLimitResetTime = {r}
              /\ \A c \in Calls : ~FetchesNow(c, p)]_vars

-----
(* C25 *)

\* in this step call c makes the availability check of provider p
ChecksNow(c, p) ==
    /\ pc[c] = "loop"
    /\ idx[c] \in 1..Len(apis) /\ apis[idx[c]] = p
    /\ CallMoves(c)

\* C25: in every reachable state of overlapping calls, reset() and clock
\* advance, a provider whose available is false has a rateLimitResetTime;
\* and once the clock has reached that time, the next availability check of
\* the provider attempts it and leaves it available.
C25_NeverStuckUnavailable ==
    /\ [](\A p \in Providers :
             apiStatus[p].available = FALSE => apiStatus[p].rateLimitResetTime # {})
    /\ [][\A c \in Calls : \A p \in Providers :
             (/\ ChecksNow(c, p)
              /\ apiStatus[p].available = FALSE
              /\ \A r \in apiStatus[p].rateLimitResetTime : now >= r) =>
                 /\ AttemptsNow(c, p)
                 /\ apiStatus'[p].available = TRUE
                 /\ apiStatus'[p].rateLimitResetTime = {}]_vars

\* a call was refused by newsapi and is still fetching finnhub; a cooldown
\* later another call fetches newsapi, whose flag the check has just cleared
\* (lastError still tells of the rate limit: neither reset() nor a success
\* cleared the flag)
C25_Witness ==
    \E c, d \in Calls :
        /\ c # d
        /\ pc[d] = "fetching" /\ idx[d] = 2
        /\ Threw(d, "newsapi") /\ RateLimitMessage(outcome[d]["newsapi"].error)
        /\ pc[c] = "fetching" /\ idx[c] = 1
        /\ now >= 2 * MIN_REQUEST_INTERVAL + RATE_LIMIT_COOLDOWN
        /\ apiStatus["newsapi"].available = TRUE
        /\ apiStatus["newsapi"].rateLimitResetTime = {}
        /\ apiStatus["newsapi"].lastError = {RateLimitExceeded}

----------------------------------------------------------------------------
(* C26 *)

\* C26: in every result of fetchNewsWithFallback, fallbackUsed is false iff
\* source is 'NewsAPI.org' (the first provider was fetched and returned at
\* least one article); a result with source 'Finnhub' or 'none' has
\* fallbackUsed = true; and articles is empty iff source is 'none'.
C26_FallbackFlagAndSource ==
    \A c \in Calls :
        pc[c] = "done" =>
            /\ result[c].state = "resolved"
            /\ result[c].source \in {"NewsAPI.org", "Finnhub", "none"}
            /\ result[c].fallbackUsed = FALSE <=> result[c].source = "NewsAPI.org"
            /\ result[c].source = "NewsAPI.org" =>
                   /\ fetched[c] = <<"newsapi">>
                   /\ ReturnedSome(c, "newsapi")
            /\ result[c].source \in {"Finnhub", "none"} => result[c].fallbackUsed = TRUE
            /\ result[c].articles = <<>> <=> result[c].source = "none"

\* newsapi was skipped in its cooldown and finnhub delivered: the result
\* names Finnhub, carries articles and says a fallback was used
C26_Witness ==
    \E c \in Calls :
        /\ pc[c] = "done"
        /\ Skipped(c, "newsapi")
        /\ result[c].source = "Finnhub"
        /\ result[c].fallbackUsed = TRUE
        /\ Len(result[c].articles) >= 1

----------------------------------------------------------------------------
(* C27 *)

\* the number of articles of arts, from position i on, that carry the label
RECURSIVE Carrying(_, _, _)
Carrying(arts, label, i) ==
    IF i > Len(arts) THEN 0
    ELSE (IF "sentiment" \in DOMAIN arts[i] /\ arts[i].sentiment = label THEN 1 ELSE 0)
         + Carrying(arts, label, i + 1)

\* C27: the analysis fetchStockNews returns counts its articles by label;
\* overallSentiment is positive iff positiveCount is strictly greater than
\* both negativeCount and neutralCount, negative iff negativeCount is
\* strictly greater than both positiveCount and neutralCount, and neutral
\* otherwise; and the three counts add up to the number of articles.
C27_OverallByStrictMajority ==
    \A a \in analysis :
        /\ a.positiveCount = Carrying(a.articles, "positive", 1)
        /\ a.negativeCount = Carrying(a.articles, "negative", 1)
        /\ a.neutralCount = Carrying(a.articles, "neutral", 1)
        /\ a.overallSentiment = "positive" <=>
               (a.positiveCount > a.negativeCount /\ a.positiveCount > a.neutralCount)
        /\ a.overallSentiment = "negative" <=>
               (a.negativeCount > a.positiveCount /\ a.negativeCount > a.neutralCount)
        /\ a.overallSentiment = "neutral" <=>
               /\ ~(a.positiveCount > a.negativeCount /\ a.positiveCount > a.neutralCount)
               /\ ~(a.negativeCount > a.positiveCount /\ a.negativeCount > a.neutralCount)
        /\ a.positiveCount + a.negativeCount + a.neutralCount = Len(a.articles)

\* a provider's two articles were classified one positive and one negative:
\* no label has the strict majority and the analysis is neutral
C27_Witness ==
    /\ nPc = "done"
    /\ managerGave.kind = "result"
    /\ \E a \in analysis :
          /\ Len(a.articles) = 2
          /\ a.positiveCount = 1 /\ a.negativeCount = 1 /\ a.neutralCount = 0
          /\ a.overallSentiment = "neutral"

----------------------------------------------------------------------------
(***************************************************************************)
(* detectEventType (src/lib/events/event-detector.ts).  The text the model *)
(* answers with is a sequence of one-character strings, as the three       *)
(* regular expressions search it character by character.                   *)
(***************************************************************************)

\* lines 11-21: type EventType
EventTypes ==
    { <<"e","a","r","n","i","n","g","s">>, <<"w","a","r">>, <<"c","o","n","t","r","a","c","t">>, <<"f","d","a","_","a","p","p","r","o","v","a","l">>, <<"m","e","r","g","e","r">>,
      <<"l","a","w","s","u","i","t">>, <<"p","r","o","d","u","c","t","_","l","a","u","n","c","h">>, <<"e","x","e","c","u","t","i","v","e","_","c","h","a","n","g","e">>,
      <<"e","c","o","n","o","m","i","c","_","d","a","t","a">>, <<"o","t","h","e","r">> }

\* the character classes \s, \d and \w
isWhitespace(ch) == ch \in {" ", "\n", "\t", "\r"}
isWordChar(ch) ==
    \/ isDigit(ch)
    \/ ch = "_"
    \/ \E n \in DOMAIN UpperCase : UpperCase[n] = ch \/ LowerCase[n] = ch

\* String.prototype.trim
trim(s) ==
    LET kept == {i \in DOMAIN s : ~isWhitespace(s[i])}
    IN  IF kept = {} THEN <<>>
        ELSE SubSeq(s, CHOOSE i \in kept : \A k \in kept : i <= k,
                       CHOOSE i \in kept : \A k \in kept : i >= k)

\* the label stands at position i of text, in any case (flag i)
labelAt(text, label, i) ==
    /\ i + Len(label) - 1 <= Len(text)
    /\ toLowerCase(SubSeq(text, i, i + Len(label) - 1)) = toLowerCase(label)

\* ch belongs to the class written \s, \d or \w
inClass(class, ch) ==
    CASE class = "s" -> isWhitespace(ch)
      [] class = "d" -> isDigit(ch)
      [] class = "w" -> isWordChar(ch)

\* the position after the longest run of characters of a class that starts at j
runEnd(text, j, class) ==
    CHOOSE k \in j..(Len(text) + 1) :
        /\ \A m \in j..(k - 1) : inClass(class, text[m])
        /\ k = Len(text) + 1 \/ ~inClass(class, text[k])

\* text.match(/LABEL\s*(\C+)/i)?.[1] for a character class \C: the capture of
\* the leftmost match ({} when there is none)
matchLabelled(text, label, class) ==
    LET starts(i) == runEnd(text, i + Len(label), "s")
        hits == {i \in DOMAIN text :
                    /\ labelAt(text, label, i)
                    /\ starts(i) <= Len(text)
                    /\ inClass(class, text[starts(i)])}
    IN  IF hits = {} THEN {}
        ELSE LET i == CHOOSE h \in hits : \A k \in hits : h <= k
             IN  {SubSeq(text, starts(i), runEnd(text, starts(i), class) - 1)}

\* text.match(/REASONING:\s*(.+)/is)?.[1]: the dot matches every character,
\* so the capture runs to the end of the text; when only white space follows
\* the label, \s* gives its last character back to the capture
matchReasoning(text) ==
    LET label == <<"R","E","A","S","O","N","I","N","G",":">>
        hits == {i \in DOMAIN text :
                    labelAt(text, label, i) /\ i + Len(label) <= Len(text)}
    IN  IF hits = {} THEN {}
        ELSE LET i == CHOOSE h \in hits : \A k \in hits : h <= k
                 j == runEnd(text, i + Len(label), "s")
             IN  {SubSeq(text, IF j <= Len(text) THEN j ELSE Len(text), Len(text))}

\* parseInt(s, 10) of a string of decimal digits
RECURSIVE parseInt(_)
parseInt(s) ==
    IF s = <<>> THEN 0
    ELSE parseInt(SubSeq(s, 1, Len(s) - 1)) * 10
         + (CHOOSE n \in 0..9 : Digits[n + 1] = s[Len(s)])

\* a || b for strings: the empty string is falsy, as is undefined
orElse(opt, default) ==
    IF \E v \in opt : v # <<>> THEN CHOOSE v \in opt : TRUE ELSE default

\* lines 41-45
noKeyEvent ==
    [type |-> <<"o","t","h","e","r">>, confidence |-> 0, reasoning |-> <<"A","P","I"," ","k","e","y"," ","n","o","t"," ","c","o","n","f","i","g","u","r","e","d">>]

\* lines 96-100
errorEvent ==
    [type |-> <<"o","t","h","e","r">>, confidence |-> 0, reasoning |-> <<"E","r","r","o","r"," ","d","u","r","i","n","g"," ","d","e","t","e","c","t","i","o","n">>]

\* lines 80-93: the event parsed from result.text
parseResponse(resultText) ==
    LET text == trim(resultText)
        typeMatch == matchLabelled(text, <<"T","Y","P","E",":">>, "w")
        confidenceMatch == matchLabelled(text, <<"C","O","N","F","I","D","E","N","C","E",":">>, "d")
        reasoningMatch == matchReasoning(text)
    IN  [type |-> orElse({toLowerCase(m) : m \in typeMatch}, <<"o","t","h","e","r">>),
         confidence |-> parseInt(orElse(confidenceMatch, <<"5","0">>)),
         reasoning |-> orElse({trim(m) : m \in reasoningMatch},
                              <<"U","n","a","b","l","e"," ","t","o"," ","d","e","t","e","r","m","i","n","e"," ","r","e","a","s","o","n","i","n","g">>)]

(* What the surroundings of detectEventType can do *)

Headlines == {<<"A","c","m","e"," ","b","e","a","t","s"," ","e","s","t","i","m","a","t","e","s">>, <<"A","c","m","e"," ","f","i","l","e","s"," ","f","o","r"," ","C","h","a","p","t","e","r"," ","1","1">>}

\* the first line of an answer
TypeLines ==
    { <<"T","Y","P","E",":"," ","e","a","r","n","i","n","g","s">> \o <<"\n">>,
      <<"T","y","p","e",":"," ","B","a","n","k","r","u","p","t","c","y">> \o <<"\n">>,
      <<"T","Y","P","E",":","F","D","A"," ","a","p","p","r","o","v","a","l">> \o <<"\n">>,
      <<"T","Y","P","E",":"," ","[","m","e","r","g","e","r","]">> \o <<"\n">>,
      <<"T","Y","P","E",":"," ">> \o <<"\n">>,
      <<>> }

\* the second line of an answer
ConfidenceLines ==
    { <<"C","O","N","F","I","D","E","N","C","E",":"," ","8","5">> \o <<"\n">>,
      <<"c","o","n","f","i","d","e","n","c","e",":"," ","1","5","0">> \o <<"\n">>,
      <<"C","O","N","F","I","D","E","N","C","E",":"," ","-","5">> \o <<"\n">>,
      <<"C","O","N","F","I","D","E","N","C","E",":"," ","1","0","0","%">> \o <<"\n">>,
      <<>> }

\* the last line of an answer
ReasoningLines ==
    { <<"R","E","A","S","O","N","I","N","G",":"," ","Q","u","a","r","t","e","r","l","y"," ","r","e","s","u","l","t","s"," ","w","e","r","e"," ","r","e","p","o","r","t","e","d","."," ">>,
      <<"R","E","A","S","O","N","I","N","G",":">>,
      <<"I"," ","c","a","n","n","o","t"," ","c","a","t","e","g","o","r","i","z","e"," ","t","h","i","s"," ","h","e","a","d","l","i","n","e",".">> }

\* result.text values generateText can resolve with
LlmTexts ==
    {<<" ">> \o t \o c \o r : t \in TypeLines, c \in ConfidenceLines, r \in ReasoningLines}

\* line 35: the call is made; without a key it returns at once (lines 39-46),
\* with one it awaits generateText
CallDetectEventType(headline) ==
    /\ dPc = "idle"
    /\ headline \in Headlines
    /\ dHeadline' = headline
    /\ IF ~groqApiKey
       THEN dEvent' = Some(noKeyEvent) /\ dPc' = "done"
       ELSE dEvent' = dEvent /\ dPc' = "generating"
    /\ UNCHANGED <<groqApiKey, dText>>
    /\ UNCHANGED outsideDetector

\* lines 73-93: generateText resolves and its text is parsed
GenerateResolves(resultText) ==
    /\ dPc = "generating"
    /\ resultText \in LlmTexts
    /\ dText' = Some(resultText)
    /\ dEvent' = Some(parseResponse(resultText))
    /\ dPc' = "done"
    /\ UNCHANGED <<groqApiKey, dHeadline>>
    /\ UNCHANGED outsideDetector

\* lines 94-101: createGroq or generateText throws
GenerateRejects ==
    /\ dPc = "generating"
    /\ dEvent' = Some(errorEvent)
    /\ dPc' = "done"
    /\ UNCHANGED <<groqApiKey, dHeadline, dText>>
    /\ UNCHANGED outsideDetector

DetectorNext ==
    \/ \E headline \in Headlines : CallDetectEventType(headline)
    \/ \E resultText \in LlmTexts : GenerateResolves(resultText)
    \/ GenerateRejects

\* the module loaded with or without GROQ_API_KEY in the environment
DetectorInit ==
    /\ managerAtRest
    /\ envAtRest
    /\ clfAtRest
    /\ newsAtRest
    /\ routeAtRest
    /\ redditAtRest
    /\ sentimentAtRest
    /\ groqApiKey \in BOOLEAN
    /\ dPc = "idle"
    /\ dHeadline = <<>>
    /\ dText = {}
    /\ dEvent = {}

DetectorSpec == DetectorInit /\ [][DetectorNext]_detectorVars

----------------------------------------------------------------------------
(* C28 *)

\* C28: every DetectedEvent detectEventType returns has a type that is one
\* of the ten EventType values and a confidence between 0 and 100, whatever
\* text the LLM returns.
C28_EventWellFormed ==
    \A e \in dEvent :
        /\ e.type \in EventTypes
        /\ e.confidence \in 0..100

====
